---- MODULE Spec2Model ----
(***************************************************************************)
(* A model of the subcellos realtime engine: the Tauri command layer       *)
(* (commands.rs), the control channel and the audio callback (audio.rs),   *)
(* the parameter store (params.rs), the transport clock (audio.rs), the    *)
(* analog voice pool and the sampler (graph.rs, modules/sampler.rs) and    *)
(* the shared playhead snapshot (state.rs).                                *)
(*                                                                         *)
(* Numbers.  f32 parameter values are modelled in tenths (the value 0.8 is *)
(* the integer 8); a sample buffer of BufLen frames therefore maps a       *)
(* normalised position v to the frame v * BufLen / 10.  The transport      *)
(* phase is a numerator over PhaseDen = 60 * sr, so that one sample at     *)
(* `bpm` advances it by exactly bpm units.  Envelope levels are integers   *)
(* 0..EnvTop; level 0 stands for "not above 1e-4".                         *)
(***************************************************************************)
EXTENDS Integers, Sequences, FiniteSets, TLC

VARIABLES
  engineTx,        \* commands.rs ENGINE_TX: TRUE once the sender is stored
  defaultDevice,   \* the host's default output device (environment)
  streamDev,       \* AudioEngine.stream: device the running stream is bound to, or "none"
  lastDeviceName,  \* AudioEngine.last_device_name
  streamsBuilt,    \* number of output streams ever built (history)
  startDev,        \* default device seen by the last start_audio that returned Ok (history)
  lastResult,      \* name and result of the last command (history)
  queue,           \* the unbounded crossbeam channel tx -> rx
  nextId,          \* number of messages sent so far (history, numbers each message)
  applied,         \* ids of the messages apply_msg has handled, in order (history)
  lastDrained,     \* messages drained by the last callback (history)
  params,          \* ParamStore { map, map_h }
  lastSet,         \* last value given to ParamStore::set for each path (history)
  transport,       \* TransportClock
  lastPhaseRet,    \* value returned by the last phase_for_next_sample (history)
  graphBpm,        \* EngineGraph.bpm
  playing,         \* the callback's `playing` flag
  recording,       \* the callback's `recording` flag
  recordedLen,     \* recorded_samples.len()
  parts,           \* EngineGraph.parts
  playhead,        \* state.rs PLAYHEAD_STATES
  preview,         \* EngineGraph.preview_sampler and preview_playing
  panicked,        \* TRUE once the audio callback has panicked
  cbFileOps,       \* file-system calls made inside the audio callback (history)
  framesOut,       \* what the last callback wrote: "none", "rendered" or "silence"
  pingThreads,     \* debug_ping threads that have not yet sent their NoteOff
  bursts,          \* bursts of commands sent so far (history, SpecQueue)
  ticks,           \* audio-side steps taken so far (history)
  connected,       \* the channel still has a Sender (AudioEngine.tx or a clone of it)
  quitApplied,     \* TRUE once apply_msg has handled a Quit (history)
  sinceRestart,    \* frames rendered since the loop voice last restarted (history, SpecLoop)
  tap,             \* the callback's sideband tap and its two channels (SpecTap)
  wavFiles,        \* sample{n}.wav files written by save_recorded_samples (SpecRec)
  boot,            \* the start_audio calls in flight, the running streams, ENGINE_TX (SpecStart)
  disk             \* project.json, its debounced writer and the UI's copy (SpecDisk)

vars == <<engineTx, defaultDevice, streamDev, lastDeviceName, streamsBuilt, startDev,
          lastResult, queue, nextId, applied, lastDrained, params, lastSet, transport,
          lastPhaseRet, graphBpm, playing, recording, recordedLen, parts, playhead,
          preview, panicked, cbFileOps, framesOut, pingThreads, bursts, ticks,
          connected, quitApplied, sinceRestart, tap, wavFiles, boot,
          disk>>

extVars == <<tap, wavFiles, boot, disk>>
auxVars == <<connected, quitApplied, sinceRestart, extVars>>
ctlVars == <<engineTx, defaultDevice, streamDev, lastDeviceName, streamsBuilt, startDev>>
chanVars == <<queue, nextId, lastDrained, pingThreads, bursts>>
audioVars == <<params, lastSet, transport, lastPhaseRet, graphBpm, playing, recording,
               recordedLen, parts, playhead, preview, panicked, cbFileOps, framesOut, ticks,
               applied>>

----------------------------------------------------------------------------
(* Program constants *)

NumParts == 6
NumVoices == 6
DrainCap == 1024
BpmMin == 40
BpmMax == 300
DefaultBpm == 120

(* Bounds of the model *)

SampleRate == 2        \* device sample rate (scaled)
CounterMod == 4        \* sample_counter is kept modulo this (a u64 in the code)
EnvTop == 2            \* envelope resolution: levels 0..EnvTop
BufLen == 10           \* frames in a decoded sample buffer
FramesPerBuffer == 2   \* frames the device asks for per callback
MaxSent == 2           \* messages sent in one run of Spec
MaxCallbacks == 2      \* callbacks in one run of Spec
MaxBursts == 3         \* bursts sent in one run of SpecQueue
MaxRecorded == 2       \* recorded_samples is tracked up to this length
MaxOps == 10           \* dispatch and render steps in one run of SpecAnalog
MaxSamplerOps == 6     \* dispatch and render steps in one run of SpecSampler
MaxVoiceOps == 8       \* dispatch and render steps in one run of SpecVoices
MaxSets == 3           \* ParamStore::set calls in one run of SpecParams
MantissaBits == 9      \* significant bits kept by an f32 value (24 in the program)
TailFrames == 2        \* processed frames a reverb or delay tail lasts (scaled)
MaxFxOps == 7          \* dispatch and render steps in one run of SpecFx
MaxQuitOps == 4        \* dispatch and render steps in one run of SpecQuit
MaxHangupOps == 6      \* dispatch and render steps in one run of SpecHangup
MaxRangeOps == 4       \* dispatch and render steps in one run of SpecRange
MaxStallOps == 30      \* dispatch and render steps in one run of SpecStall
MaxChainOps == 9       \* dispatch and render steps in one run of SpecChain
MaxModuleOps == 5      \* dispatch and render steps in one run of SpecModules
MaxRecOps == 6         \* dispatch and render steps in one run of SpecRec
NumCallers == 3        \* threads that may call start_audio in SpecStart
MaxDiskOps == 4        \* project commands issued in one run of SpecDisk
SpectrumBlock == 4     \* mono samples in one spectrum frame (2048 in audio.rs, scaled)
MeterBlock == 2        \* samples in one meter window (1024 in audio.rs, scaled)
MaxTapOps == 8         \* dispatch and callback steps in one run of SpecTap
SidebandCapacity == 2  \* the capacity the sideband channels are checked against
MaxDrains == 4         \* callbacks in one run of SpecQueue
LargeBurst == 700      \* commands in a large burst (SpecQueue)

\* Option::None; Some(x) is a record with tag "Some"
None == [tag |-> "None"]

Min(a, b) == IF a < b THEN a ELSE b
Max(a, b) == IF a > b THEN a ELSE b

\* f32::clamp(lo, hi) for lo <= hi (finite values)
Clamp(x, lo, hi) == IF x < lo THEN lo ELSE IF x > hi THEN hi ELSE x

----------------------------------------------------------------------------
(* params.rs: FNV-1a over the path bytes.  A u64 is a tuple of 8 bytes,   *)
(* least significant first; a path is a tuple of its UTF-8 bytes.         *)

Bit(x, k) == (x \div (2 ^ k)) % 2

\* a ^ b on two bytes
XorByte(a, b) ==
  LET X(k) == ((Bit(a, k) + Bit(b, k)) % 2) * (2 ^ k)
  IN  X(0) + X(1) + X(2) + X(3) + X(4) + X(5) + X(6) + X(7)

FnvOffsetBasis == <<37, 35, 34, 132, 228, 156, 242, 203>>   \* 0xcbf29ce484222325

\* hash.wrapping_mul(0x100000001b3): 0x100000001b3 = 2^40 + 435, so limb i of
\* the product is 435 * h[i] + h[i - 5] plus the carry of limb i - 1
WrappingMulPrime(h) ==
  LET t1 == h[1] * 435
      t2 == (h[2] * 435) + (t1 \div 256)
      t3 == (h[3] * 435) + (t2 \div 256)
      t4 == (h[4] * 435) + (t3 \div 256)
      t5 == (h[5] * 435) + (t4 \div 256)
      t6 == (h[6] * 435) + h[1] + (t5 \div 256)
      t7 == (h[7] * 435) + h[2] + (t6 \div 256)
      t8 == (h[8] * 435) + h[3] + (t7 \div 256)
  IN  <<t1 % 256, t2 % 256, t3 % 256, t4 % 256, t5 % 256, t6 % 256, t7 % 256, t8 % 256>>

\* the loop body: hash ^= b; hash = hash.wrapping_mul(prime)
FnvStep(hash, b) == WrappingMulPrime([hash EXCEPT ![1] = XorByte(hash[1], b)])

\* the hash after the first i bytes of s is H[i]
fast_hash(s) ==
  LET H[i \in 0 .. Len(s)] ==
        IF i = 0 THEN FnvOffsetBasis
        ELSE CHOOSE r \in {FnvStep(h, s[i]) : h \in {H[i - 1]}} : TRUE
  IN  H[Len(s)]

hash_path(path) == fast_hash(path)

(* Parameter paths (bytes of the format! strings of graph.rs) *)
B_part == <<112, 97, 114, 116, 47>>
B_module_kind == <<47, 109, 111, 100, 117, 108, 101, 95, 107, 105, 110, 100>>
B_sample_start == <<47, 115, 97, 109, 112, 108, 101, 114, 47, 115, 97, 109, 112, 108,
                    101, 95, 115, 116, 97, 114, 116>>
B_sample_end == <<47, 115, 97, 109, 112, 108, 101, 114, 47, 115, 97, 109, 112, 108,
                  101, 95, 101, 110, 100>>
B_mixer_part == <<109, 105, 120, 101, 114, 47, 112, 97, 114, 116>>
B_gain_db == <<47, 103, 97, 105, 110, 95, 100, 98>>

Digit(i) == <<48 + i>>
PathModuleKind(idx) == B_part \o Digit(idx) \o B_module_kind
PathSampleStart(idx) == B_part \o Digit(idx) \o B_sample_start
PathSampleEnd(idx) == B_part \o Digit(idx) \o B_sample_end
PathMixerGain(idx) == B_mixer_part \o Digit(idx) \o B_gain_db

\* "part/{idx}/sampler/{name}" for the other sampler parameters
B_sampler ==
  [playback_mode |-> <<47, 115, 97, 109, 112, 108, 101, 114, 47, 112, 108, 97, 121, 98,
                       97, 99, 107, 95, 109, 111, 100, 101>>,
   loop_start |-> <<47, 115, 97, 109, 112, 108, 101, 114, 47, 108, 111, 111, 112, 95,
                    115, 116, 97, 114, 116>>,
   loop_end |-> <<47, 115, 97, 109, 112, 108, 101, 114, 47, 108, 111, 111, 112, 95,
                  101, 110, 100>>,
   loop_mode |-> <<47, 115, 97, 109, 112, 108, 101, 114, 47, 108, 111, 111, 112, 95,
                   109, 111, 100, 101>>,
   retrig_mode |-> <<47, 115, 97, 109, 112, 108, 101, 114, 47, 114, 101, 116, 114, 105,
                     103, 95, 109, 111, 100, 101>>]
PathSampler(idx, name) == B_part \o Digit(idx) \o B_sampler[name]

\* "/fx", "/type" and "/p3": slot n of part idx has the paths
\* "part/{idx}/fx{n}/type" and "part/{idx}/fx{n}/p3" (its mix)
B_fx == [slot |-> <<47, 102, 120>>, type |-> <<47, 116, 121, 112, 101>>, p3 |-> <<47, 112, 51>>,
         p1 |-> <<47, 112, 49>>]
PathFx(idx, n, name) == B_part \o Digit(idx) \o B_fx.slot \o Digit(n) \o B_fx[name]

PartIdx_seven == 0 .. NumParts

PartIdx == 0 .. (NumParts - 1)

\* the precomputed keys held by each Part
KeyModuleKind == [i \in PartIdx |-> hash_path(PathModuleKind(i))]
KeySampleStart == [i \in PartIdx |-> hash_path(PathSampleStart(i))]
KeySampleEnd == [i \in PartIdx |-> hash_path(PathSampleEnd(i))]
KeyMixerGain == [i \in PartIdx |-> hash_path(PathMixerGain(i))]
KeyFxType == [i \in PartIdx |-> [n \in 1 .. 4 |-> hash_path(PathFx(i, n, "type"))]]
KeyFxMix == [i \in PartIdx |-> [n \in 1 .. 4 |-> hash_path(PathFx(i, n, "p3"))]]
KeyFxP1 == [i \in PartIdx |-> hash_path(PathFx(i, 1, "p1"))]

(* ParamValue *)
F32(v) == [t |-> "F32", v |-> v]
I32(v) == [t |-> "I32", v |-> v]
\* the payload of a Bool is kept as 0 / 1
BoolV(v) == [t |-> "Bool", v |-> IF v THEN 1 ELSE 0]

EmptyMap == [x \in {} |-> 0]
MapInsert(m, k, v) == [x \in (DOMAIN m) \cup {k} |-> IF x = k THEN v ELSE m[x]]

ParamStore_new == [map |-> EmptyMap, map_h |-> EmptyMap]

\* a plausible slip: only the string-keyed map is written
ParamStore_set_no_hash(ps, path, v) == [ps EXCEPT !.map = MapInsert(ps.map, path, v)]

ParamStore_set(ps, path, v) ==
  LET h == fast_hash(path)
  IN  [map |-> MapInsert(ps.map, path, v), map_h |-> MapInsert(ps.map_h, h, v)]

get_f32(ps, path, default) ==
  IF path \in DOMAIN ps.map /\ ps.map[path].t = "F32" THEN ps.map[path].v ELSE default

get_i32(ps, path, default) ==
  IF path \in DOMAIN ps.map /\ ps.map[path].t = "I32" THEN ps.map[path].v ELSE default

get_f32_h(ps, key, default) ==
  IF key \in DOMAIN ps.map_h /\ ps.map_h[key].t = "F32" THEN ps.map_h[key].v ELSE default

get_i32_h(ps, key, default) ==
  IF key \in DOMAIN ps.map_h /\ ps.map_h[key].t = "I32" THEN ps.map_h[key].v ELSE default

----------------------------------------------------------------------------
(* audio.rs: TransportClock *)

PhaseDen(sr) == 60 * sr

update_coeff(c) == [c EXCEPT !.beats_per_sample = (c.bpm * PhaseDen(c.sr)) \div (60 * c.sr)]

TransportClock_new(sr, bpm) ==
  update_coeff([sr |-> Max(sr, 1), bpm |-> Clamp(bpm, BpmMin, BpmMax),
                beats_per_sample |-> 0, phase |-> 0, running |-> TRUE,
                sample_counter |-> 0])

\* a plausible slip: the coefficient is not recomputed
set_bpm_stale(c, bpm) == [c EXCEPT !.bpm = Clamp(bpm, BpmMin, BpmMax)]

set_bpm(c, bpm) == update_coeff([c EXCEPT !.bpm = Clamp(bpm, BpmMin, BpmMax)])

set_running(c, running) == [c EXCEPT !.running = running]

\* a plausible slip: the counter and phase advance although the clock is stopped
phase_for_next_sample_free(c) ==
  LET next == (c.phase + c.beats_per_sample) % PhaseDen(c.sr)
  IN  [c EXCEPT !.phase = next, !.sample_counter = (c.sample_counter + 1) % CounterMod]

\* the clock after the call; the call returns the new clock's phase
phase_for_next_sample(c) ==
  IF c.running
  THEN LET sum == c.phase + c.beats_per_sample
           wraps == sum \div PhaseDen(c.sr)
           next == IF sum >= PhaseDen(c.sr) THEN sum - wraps * PhaseDen(c.sr) ELSE sum
       IN  [c EXCEPT !.phase = next, !.sample_counter = (c.sample_counter + 1) % CounterMod]
  ELSE c

----------------------------------------------------------------------------
(* graph.rs: Adsr and the analog Voice.  The amp envelope runs with       *)
(* attack, decay and release of one level per rendered frame and a        *)
(* sustain level of EnvTop - 1.                                           *)

VoiceIdx == 0 .. (NumVoices - 1)

EnvSustain == EnvTop - 1

Voice_new == [active |-> FALSE, note |-> 0, env |-> 0, gate |-> FALSE, attacking |-> FALSE]

Voice_is_active(v) == v.active \/ v.env > 0

Voice_note_on(v, note) ==
  [v EXCEPT !.active = TRUE, !.note = note, !.gate = TRUE, !.attacking = TRUE]

Voice_note_off(v) == [v EXCEPT !.gate = FALSE, !.attacking = FALSE, !.active = FALSE]

Adsr_next(v) ==
  IF v.gate
  THEN IF v.attacking
       THEN IF v.env < EnvTop
            THEN IF v.env + 1 >= EnvTop
                 THEN [v EXCEPT !.env = EnvTop, !.attacking = FALSE]
                 ELSE [v EXCEPT !.env = v.env + 1]
            ELSE [v EXCEPT !.attacking = FALSE]
       ELSE IF v.env > EnvSustain THEN [v EXCEPT !.env = Max(v.env - 1, EnvSustain)]
            ELSE IF v.env < EnvSustain THEN [v EXCEPT !.env = Min(v.env + 1, EnvSustain)]
            ELSE v
  ELSE IF v.env > 0 THEN [v EXCEPT !.env = Max(v.env - 1, 0)] ELSE v

Voice_render(v) == Adsr_next(v)

----------------------------------------------------------------------------
(* modules/sampler.rs: Envelope, SamplerVoice and Sampler.  Positions are *)
(* whole frames of the buffer and the pitch parameters are left at their  *)
(* defaults, so the pitch ratio is 1 except where Loop and Keytrack apply *)
(* key tracking.  The envelope moves one level per rendered frame between *)
(* 0 and EnvTop with a sustain level of EnvTop - 1.  Beats are counted in *)
(* units of 1 / PhaseDen(sr).                                             *)

\* an f32 result: round-to-nearest-even onto MantissaBits significant bits
F32Round(x) ==
  LET RECURSIVE Shift(_, _)
      Shift(y, e) == IF y < 2 ^ MantissaBits THEN e ELSE Shift(y \div 2, e + 1)
      e == Shift(x, 0)
      q == x \div (2 ^ e)
      r == x % (2 ^ e)
      up == e > 0 /\ (2 * r > 2 ^ e \/ (2 * r = 2 ^ e /\ q % 2 = 1))
  IN  IF x < 2 ^ MantissaBits THEN x ELSE (IF up THEN q + 1 ELSE q) * (2 ^ e)

PlaybackMode_from_index(i) == IF i = 1 THEN "Loop" ELSE IF i = 2 THEN "Keytrack" ELSE "OneShot"

LoopMode_from_index(i) == IF i = 1 THEN "PingPong" ELSE "Forward"

\* cents_to_ratio(note_offset * 100), exact on the octaves at and above the root note 60
PitchRatio(note) == IF note >= 60 /\ (note - 60) % 12 = 0 THEN 2 ^ ((note - 60) \div 12) ELSE 1

Envelope_note_off(v) == [v EXCEPT !.stage = "Release"]

Envelope_ensure_release(v) ==
  IF v.stage \notin {"Release", "Idle"} THEN Envelope_note_off(v) ELSE v

Envelope_process(v) ==
  CASE v.stage = "Attack" ->
         IF v.level + 1 >= EnvTop THEN [v EXCEPT !.level = EnvTop, !.stage = "Decay"]
         ELSE [v EXCEPT !.level = v.level + 1]
    [] v.stage = "Decay" ->
         IF v.level - 1 <= EnvSustain THEN [v EXCEPT !.level = EnvSustain, !.stage = "Sustain"]
         ELSE [v EXCEPT !.level = v.level - 1]
    [] v.stage = "Release" ->
         IF v.level - 1 <= 0 THEN [v EXCEPT !.level = 0, !.stage = "Idle"]
         ELSE [v EXCEPT !.level = v.level - 1]
    [] OTHER -> v

SamplerVoice_new ==
  [note |-> 60, gate |-> FALSE, just_triggered |-> FALSE, position |-> 0,
   direction |-> 1, stage |-> "Idle", level |-> 0, last_beat_phase |-> 0,
   local_beats |-> 0, next_trig_beats |-> 0, last_interval_beats |-> 0,
   stall_until_retrig |-> FALSE, trigger_serial |-> 0,
   out |-> "zero"]   \* what the last call of render returned: "zero" (0.0) or "sample"

SamplerVoice_note_on(v, note) ==
  [v EXCEPT !.note = note, !.gate = TRUE, !.just_triggered = TRUE, !.position = 0,
            !.direction = 1, !.stall_until_retrig = FALSE, !.local_beats = 0,
            !.next_trig_beats = 0, !.last_interval_beats = 0]

\* a plausible slip: the key-up starts the release at once
SamplerVoice_note_off_release(v) == [v EXCEPT !.gate = FALSE, !.stage = "Release"]

SamplerVoice_note_off(v) == [v EXCEPT !.gate = FALSE]

SamplerVoice_is_active(v) == v.stage # "Idle"

\* sample_start / sample_end mapped to frames of the buffer
StartPos(ps, keys, len) == (Clamp(get_f32_h(ps, keys.sample_start, 0), 0, 10) * len) \div 10
EndPos(ps, keys, len) == (Clamp(get_f32_h(ps, keys.sample_end, 10), 0, 10) * len) \div 10

\* loop_start / loop_end inside the trimmed region
LoopStartPos(ps, keys, len) ==
  StartPos(ps, keys, len)
    + (Clamp(get_f32_h(ps, keys.loop_start, 0), 0, 10)
         * (EndPos(ps, keys, len) - StartPos(ps, keys, len))) \div 10
LoopEndPos(ps, keys, len) ==
  StartPos(ps, keys, len)
    + (Clamp(get_f32_h(ps, keys.loop_end, 10), 0, 10)
         * (EndPos(ps, keys, len) - StartPos(ps, keys, len))) \div 10

\* interval_beats = 4.0 / denom of the retrigger selector
IntervalBeats(retrig_sel, sr) ==
  LET denom_table == <<0, 1, 2, 4, 8, 16, 32, 64>>
      denom == Max(denom_table[Min(retrig_sel, 7) + 1], 1)
  IN  (4 * PhaseDen(sr)) \div denom

\* the just_triggered block of render
SamplerVoice_trigger(v, mode, start_pos, beat_phase) ==
  IF v.just_triggered
  THEN LET w == [v EXCEPT !.position = start_pos, !.just_triggered = FALSE,
                          !.local_beats = 0, !.next_trig_beats = 0,
                          !.last_interval_beats = 0, !.stall_until_retrig = FALSE,
                          !.last_beat_phase = beat_phase]
       IN  IF mode \in {"Loop", "Keytrack"} THEN [w EXCEPT !.stage = "Attack"]
           ELSE [w EXCEPT !.stage = "Sustain", !.level = EnvTop]
  ELSE v

\* the tempo-synced retrigger schedule of render: the voice and retrig_now
SamplerVoice_schedule(v, mode, retrig_sel, sr, beat_phase) ==
  LET Fire(v3, local, interval) ==
        IF local >= v3.next_trig_beats
        THEN [voice |-> [v3 EXCEPT !.next_trig_beats =
                           F32Round(@ + (((local - @) \div interval) + 1) * interval)],
              retrig_now |-> TRUE]
        ELSE [voice |-> v3, retrig_now |-> FALSE]
      Seed(v2, local, interval) ==
        Fire(IF v2.next_trig_beats <= 0
             THEN [v2 EXCEPT !.next_trig_beats = interval, !.last_interval_beats = interval]
             ELSE v2,
             local, interval)
      Align(v1, local, interval) ==
        Seed(IF v1.last_interval_beats # interval
             THEN [v1 EXCEPT
                     !.next_trig_beats =
                        F32Round(((local + interval - 1) \div interval) * interval),
                     !.last_interval_beats = interval]
             ELSE v1,
             local, interval)
      Clock(local) ==
        IF retrig_sel >= 1
        THEN Align([v EXCEPT !.local_beats = local], local, IntervalBeats(retrig_sel, sr))
        ELSE [voice |-> [v EXCEPT !.local_beats = local, !.next_trig_beats = 0,
                                  !.last_interval_beats = 0],
              retrig_now |-> FALSE]
      Advance(d0) ==
        Clock(F32Round(v.local_beats + (IF d0 < 0 THEN F32Round(d0 + PhaseDen(sr)) ELSE d0)))
  IN  IF mode = "Loop" THEN Advance(beat_phase - v.last_beat_phase)
      ELSE [voice |-> [v EXCEPT !.local_beats = 0, !.next_trig_beats = 0,
                                !.last_interval_beats = 0],
            retrig_now |-> FALSE]

\* PlaybackMode::OneShot and PlaybackMode::Keytrack arms of render
SamplerVoice_play_through(v, mode, retrig_now, start_pos, end_pos, pitch_ratio) ==
  LET Step(w) ==
        IF w.position < end_pos
        THEN [w EXCEPT !.position = w.position + pitch_ratio, !.out = "sample"]
        ELSE IF mode = "OneShot" THEN [w EXCEPT !.stage = "Idle", !.level = 0, !.out = "zero"]
        ELSE Envelope_note_off([w EXCEPT !.out = "zero"])
  IN  Step(IF retrig_now THEN [v EXCEPT !.position = start_pos, !.direction = 1] ELSE v)

\* a plausible slip: a stalled voice is played like any other
SamplerVoice_play_loop_nostall(v, loop_mode, retrig_sel, retrig_now, sr, beat_phase, end_pos, lsp, lep, pitch_ratio) ==
  LET tq == retrig_sel >= 1
      Outside(x) ==
        IF x.position < end_pos
        THEN [x EXCEPT !.position = x.position + pitch_ratio, !.out = "sample"]
        ELSE Envelope_note_off([x EXCEPT !.out = "zero"])
      Inside(w, fwd, mov) ==
        IF loop_mode = "Forward"
        THEN IF mov >= lep
             THEN IF tq THEN [w EXCEPT !.position = lep, !.stall_until_retrig = TRUE]
                  ELSE [w EXCEPT !.position = lsp + (mov - lep)]
             ELSE [w EXCEPT !.position = mov]
        ELSE IF tq
             THEN IF fwd >= lep
                  THEN [w EXCEPT !.position = lep, !.stall_until_retrig = TRUE]
                  ELSE [w EXCEPT !.position = fwd]
             ELSE IF mov >= lep
                  THEN [w EXCEPT !.direction = -1, !.position = lep - (mov - lep)]
                  ELSE IF mov <= lsp
                       THEN [w EXCEPT !.direction = 1, !.position = lsp + (lsp - mov)]
                       ELSE [w EXCEPT !.position = mov]
      Step(w) ==
        IF w.position >= lsp /\ w.position <= lep
        THEN Inside([w EXCEPT !.out = "sample"], w.position + pitch_ratio,
                    w.position + pitch_ratio * w.direction)
        ELSE Outside(IF retrig_now
                     THEN [w EXCEPT !.position = lsp, !.direction = 1,
                                    !.stall_until_retrig = FALSE]
                     ELSE w)
  IN  Step(IF retrig_now
           THEN [v EXCEPT !.position = lsp, !.direction = 1, !.stall_until_retrig = FALSE,
                          !.local_beats = 0,
                          !.next_trig_beats = IntervalBeats(retrig_sel, sr),
                          !.last_interval_beats = IntervalBeats(retrig_sel, sr),
                          !.last_beat_phase = beat_phase]
           ELSE v)

\* PlaybackMode::Loop arm of render
SamplerVoice_play_loop(v, loop_mode, retrig_sel, retrig_now, sr, beat_phase, end_pos, lsp, lep, pitch_ratio) ==
  LET tq == retrig_sel >= 1
      Outside(x) ==
        IF x.position < end_pos
        THEN [x EXCEPT !.position = x.position + pitch_ratio, !.out = "sample"]
        ELSE Envelope_note_off([x EXCEPT !.out = "zero"])
      Inside(w, fwd, mov) ==
        IF loop_mode = "Forward"
        THEN IF mov >= lep
             THEN IF tq THEN [w EXCEPT !.position = lep, !.stall_until_retrig = TRUE]
                  ELSE [w EXCEPT !.position = lsp + (mov - lep)]
             ELSE [w EXCEPT !.position = mov]
        ELSE IF tq
             THEN IF fwd >= lep
                  THEN [w EXCEPT !.position = lep, !.stall_until_retrig = TRUE]
                  ELSE [w EXCEPT !.position = fwd]
             ELSE IF mov >= lep
                  THEN [w EXCEPT !.direction = -1, !.position = lep - (mov - lep)]
                  ELSE IF mov <= lsp
                       THEN [w EXCEPT !.direction = 1, !.position = lsp + (lsp - mov)]
                       ELSE [w EXCEPT !.position = mov]
      Step(w) ==
        IF tq /\ w.stall_until_retrig /\ ~retrig_now THEN [w EXCEPT !.out = "zero"]
        ELSE IF w.position >= lsp /\ w.position <= lep
        THEN Inside([w EXCEPT !.out = "sample"], w.position + pitch_ratio,
                    w.position + pitch_ratio * w.direction)
        ELSE Outside(IF retrig_now
                     THEN [w EXCEPT !.position = lsp, !.direction = 1,
                                    !.stall_until_retrig = FALSE]
                     ELSE w)
  IN  Step(IF retrig_now
           THEN [v EXCEPT !.position = lsp, !.direction = 1, !.stall_until_retrig = FALSE,
                          !.local_beats = 0,
                          !.next_trig_beats = IntervalBeats(retrig_sel, sr),
                          !.last_interval_beats = IntervalBeats(retrig_sel, sr),
                          !.last_beat_phase = beat_phase]
           ELSE v)

SamplerVoice_render(v, len, sr, ps, keys, beat_phase) ==
  LET \* One-Shot: the envelope is forced open after the playback step
      Shape(mode, v4) ==
        IF mode \in {"Loop", "Keytrack"} THEN Envelope_process(v4)
        ELSE [v4 EXCEPT !.level = EnvTop, !.stage = "Sustain"]
      Play(mode, retrig_sel, pitch_ratio, start_pos, end_pos, v3, retrig_now) ==
        IF ~SamplerVoice_is_active(v3) /\ ~v3.gate /\ mode # "OneShot"
        THEN [v3 EXCEPT !.out = "zero"]
        ELSE Shape(mode,
               IF mode = "Loop"
               THEN SamplerVoice_play_loop(v3,
                      LoopMode_from_index(get_i32_h(ps, keys.loop_mode, 0)), retrig_sel,
                      retrig_now, sr, beat_phase, end_pos, LoopStartPos(ps, keys, len),
                      LoopEndPos(ps, keys, len), pitch_ratio)
               ELSE SamplerVoice_play_through(v3, mode, retrig_now, start_pos, end_pos,
                      pitch_ratio))
      Release(mode, v2) ==
        IF ~v2.gate /\ mode \in {"Loop", "Keytrack"} THEN Envelope_ensure_release(v2) ELSE v2
      Scheduled(mode, retrig_sel, start_pos, end_pos, s) ==
        Play(mode, retrig_sel, IF mode \in {"Keytrack", "Loop"} THEN PitchRatio(v.note) ELSE 1,
             start_pos, end_pos,
             Release(mode, [s.voice EXCEPT !.last_beat_phase = beat_phase]), s.retrig_now)
      Run(mode, retrig_sel, start_pos, end_pos) ==
        Scheduled(mode, retrig_sel, start_pos, end_pos,
                  SamplerVoice_schedule(SamplerVoice_trigger(v, mode, start_pos, beat_phase),
                                        mode, retrig_sel, sr, beat_phase))
  IN  IF len = 0 THEN [v EXCEPT !.out = "zero"]
      ELSE Run(PlaybackMode_from_index(get_i32_h(ps, keys.playback_mode, 0)),
               Max(get_i32_h(ps, keys.retrig_mode, 0), 0),
               StartPos(ps, keys, len), EndPos(ps, keys, len))

Sampler_new(sr) ==
  [sr |-> sr, voices |-> [i \in VoiceIdx |-> SamplerVoice_new], voice_allocator |-> 0,
   length_samples |-> 0, trigger_counter |-> 1]

Sampler_find_available_voice(s) ==
  LET free == {i \in VoiceIdx : ~SamplerVoice_is_active(s.voices[i])}
  IN  IF free # {}
      THEN [idx |-> CHOOSE i \in free : \A j \in free : i <= j, alloc |-> s.voice_allocator]
      ELSE [idx |-> s.voice_allocator, alloc |-> (s.voice_allocator + 1) % NumVoices]

Sampler_note_on(s, note) ==
  LET f == Sampler_find_available_voice(s)
      v == [SamplerVoice_note_on(s.voices[f.idx], note)
              EXCEPT !.trigger_serial = s.trigger_counter]
  IN  [s EXCEPT !.voices[f.idx] = v, !.voice_allocator = f.alloc,
                !.trigger_counter = Max(s.trigger_counter + 1, 1)]

Sampler_note_off(s, note) ==
  [s EXCEPT !.voices = [i \in VoiceIdx |->
      IF s.voices[i].note = note /\ s.voices[i].gate
      THEN SamplerVoice_note_off(s.voices[i]) ELSE s.voices[i]]]

Sampler_render_one(s, ps, keys, beat_phase) ==
  [s EXCEPT !.voices = [i \in VoiceIdx |->
      SamplerVoice_render(s.voices[i], s.length_samples, s.sr, ps, keys, beat_phase)]]

Sampler_is_playing(s) == \E i \in VoiceIdx : SamplerVoice_is_active(s.voices[i])

\* the decoder: the frames a file yields, 0 when it cannot be opened or decoded
DecodedLen(path) == IF path \in {<<"docs", "subsamples", "a.wav">>} THEN BufLen ELSE 0

Sampler_load_sample(s, path) ==
  IF DecodedLen(path) > 0 THEN [s EXCEPT !.length_samples = DecodedLen(path)] ELSE s

Sampler_clear_sample(s) ==
  [s EXCEPT !.length_samples = 0,
            !.voices = [i \in VoiceIdx |-> [s.voices[i] EXCEPT !.stage = "Idle", !.level = 0]]]

\* a plausible slip: the first active voice is reported, whatever its serial
Sampler_compute_playhead_state_first(s, ps, keys) ==
  LET act == {i \in VoiceIdx : SamplerVoice_is_active(s.voices[i])}
  IN  IF act = {} THEN None
      ELSE IF s.length_samples = 0 THEN None
      ELSE LET start_pos == StartPos(ps, keys, s.length_samples)
               end_pos == EndPos(ps, keys, s.length_samples)
               vi == CHOOSE i \in act : \A j \in act : i <= j
           IN  IF start_pos > end_pos THEN [tag |-> "panic"]
               ELSE [tag |-> "Some", position |-> Clamp(s.voices[vi].position, start_pos, end_pos),
                     start |-> start_pos, end |-> end_pos,
                     serial |-> s.voices[vi].trigger_serial, playing |-> TRUE]

\* None, Some(PlayheadState), or a panic: f32::clamp(min, max) panics when min > max
Sampler_compute_playhead_state(s, ps, keys) ==
  LET act == {i \in VoiceIdx : SamplerVoice_is_active(s.voices[i])}
  IN  IF act = {} THEN None
      ELSE IF s.length_samples = 0 THEN None
      ELSE LET start_pos == StartPos(ps, keys, s.length_samples)
               end_pos == EndPos(ps, keys, s.length_samples)
               \* max_by_key: the last voice among those with the highest serial
               vi == CHOOSE i \in act : \A j \in act :
                       \/ s.voices[j].trigger_serial < s.voices[i].trigger_serial
                       \/ (s.voices[j].trigger_serial = s.voices[i].trigger_serial /\ j <= i)
           IN  IF start_pos > end_pos THEN [tag |-> "panic"]
               ELSE [tag |-> "Some", position |-> Clamp(s.voices[vi].position, start_pos, end_pos),
                     start |-> start_pos, end |-> end_pos,
                     serial |-> s.voices[vi].trigger_serial, playing |-> TRUE]

----------------------------------------------------------------------------
(* graph.rs: Part *)

\* Part::new: the hashed sampler keys of part idx
SamplerKeysOfPart ==
  [idx \in PartIdx |->
     [sample_start |-> KeySampleStart[idx], sample_end |-> KeySampleEnd[idx],
      playback_mode |-> hash_path(PathSampler(idx, "playback_mode")),
      loop_start |-> hash_path(PathSampler(idx, "loop_start")),
      loop_end |-> hash_path(PathSampler(idx, "loop_end")),
      loop_mode |-> hash_path(PathSampler(idx, "loop_mode")),
      retrig_mode |-> hash_path(PathSampler(idx, "retrig_mode"))]]

SamplerKeys(idx) == SamplerKeysOfPart[idx]

\* render_frame: the preview sampler is rendered with all-zero keys
PreviewKeys ==
  LET z == <<0, 0, 0, 0, 0, 0, 0, 0>>
  IN  [sample_start |-> z, sample_end |-> z, playback_mode |-> z, loop_start |-> z,
       loop_end |-> z, loop_mode |-> z, retrig_mode |-> z]

\* FX slot 1 of a part.  A reverb tank or a delay line that was fed a sounding
\* frame holds a tail for TailFrames more processed frames; `tank` and `line`
\* count the processed frames the tail still lasts.
Freeverb_new == [tag |-> "Some", tank |-> 0]

\* Freeverb::tick and SimpleDelay::process_block on one frame of input
Tail_tick(tail, dry) == IF dry THEN TailFrames ELSE Max(tail - 1, 0)

Fx1_new == [reverb |-> None, crusher |-> FALSE, line |-> 0, delay_ms |-> 0]

FxType(ps, idx, n) == get_i32_h(ps, KeyFxType[idx][n], 0)

FxMix(ps, idx, n) == Clamp(get_f32_h(ps, KeyFxMix[idx][n], 0), 0, 10)

\* the early-out of Part::render: the dry signal is silent and every slot is
\* off or has its mix at zero
Part_early_out(ps, idx, dry) ==
  ~dry /\ \A n \in 1 .. 4 : FxType(ps, idx, n) <= 0 \/ FxMix(ps, idx, n) <= 0

\* the branch of Part::render taken for a module kind: 5, 1, 2, 3 and 4 have
\* their own, every other value falls to the analog branch
RenderBranch(module) == IF module \in {1, 2, 3, 4, 5} THEN module ELSE 0

\* time_ms handed to SimpleDelay::process_block by slot 1, in ms, for p1 in
\* tenths: the resonator branch maps p1 to 1..51 ms, the others to 10..1000 ms
Fx1DelayMs(branch, p1) ==
  IF branch = 3 THEN (Clamp(p1, 0, 10) * 50) \div 10 + 1
  ELSE 10 + (Clamp(p1, 0, 10) * 990) \div 10

\* the FX1 stage of Part::render on one frame whose dry signal sounds or not,
\* as written in the branch of the module kind: the six copies differ in the
\* delay time and in which arm releases the reverb and the bitcrusher
Part_fx1(fx, ps, idx, dry, module) ==
  LET branch == RenderBranch(module)
      Tick(rv) ==
        [fx EXCEPT !.reverb = [rv EXCEPT !.tank = Tail_tick(@, dry)],
                   !.crusher = IF branch = 3 THEN FALSE ELSE @]
      Slot(t, mix) ==
        IF t <= 0 \/ mix <= 0
        THEN IF t <= 0 THEN [fx EXCEPT !.reverb = None, !.crusher = FALSE] ELSE fx
        ELSE IF t = 2
             THEN [fx EXCEPT !.line = Tail_tick(@, dry), !.reverb = None, !.crusher = FALSE,
                             !.delay_ms = Fx1DelayMs(branch, get_f32_h(ps, KeyFxP1[idx], 0))]
        ELSE IF t = 1 THEN Tick(IF fx.reverb = None THEN Freeverb_new ELSE fx.reverb)
        ELSE IF t \in {3, 4, 5} THEN [fx EXCEPT !.reverb = None, !.crusher = FALSE]
        ELSE IF t = 6
             THEN [fx EXCEPT !.reverb = None, !.crusher = IF branch = 2 THEN FALSE ELSE @]
        ELSE IF t = 7
             THEN [fx EXCEPT !.reverb = None,
                             !.crusher = IF branch \in {2, 5} THEN FALSE ELSE @]
        ELSE IF t = 8 THEN [fx EXCEPT !.crusher = TRUE]
        ELSE fx
  IN  IF Part_early_out(ps, idx, dry) THEN fx
      ELSE Slot(FxType(ps, idx, 1), FxMix(ps, idx, 1))

----------------------------------------------------------------------------
(* modules/acid303.rs: the mono voice.  Its envelope moves one level per  *)
(* rendered frame: up while in_attack, down towards zero afterwards.      *)

SomeNote(note) == [tag |-> "Some", v |-> note]

Acid303_new ==
  [gate |-> FALSE, current_note |-> None, just_triggered |-> FALSE, in_attack |-> FALSE,
   env |-> 0]

\* legato (a different note while one is gated) keeps the envelope running
Acid303_note_on(a, note) ==
  LET Trigger(is_legato) ==
        [a EXCEPT !.gate = TRUE, !.current_note = SomeNote(note), !.just_triggered = TRUE,
                  !.env = IF is_legato THEN @ ELSE 0,
                  !.in_attack = IF is_legato THEN @ ELSE TRUE]
  IN  Trigger(a.gate /\ a.current_note # None /\ a.current_note # SomeNote(note))

\* note_off(&mut self, _note: u8): the note is not looked at
Acid303_note_off(a, note) ==
  [a EXCEPT !.gate = FALSE, !.current_note = None, !.in_attack = FALSE]

Acid303_update_envelope(a) ==
  IF a.in_attack
  THEN IF a.env + 1 >= EnvTop THEN [a EXCEPT !.env = EnvTop, !.in_attack = FALSE]
       ELSE [a EXCEPT !.env = @ + 1]
  ELSE [a EXCEPT !.env = Max(@ - 1, 0)]

Acid303_render_one(a) == [Acid303_update_envelope(a) EXCEPT !.just_triggered = FALSE]

\* the acid voice sounds on this frame: its envelope is above the floor
AcidDry(a) == a.env > 0

Part_new(sr) ==
  [voices |-> [i \in VoiceIdx |-> Voice_new], next_voice |-> 0, sampler |-> Sampler_new(sr),
   acid |-> Acid303_new, fx1 |-> Fx1_new]

ModuleKind(ps, idx) == get_i32_h(ps, KeyModuleKind[idx], 0)

\* the analog branch of Part::note_on
GateOffSameNote(voices, note) ==
  [i \in VoiceIdx |->
     IF voices[i].note = note /\ Voice_is_active(voices[i])
     THEN Voice_note_off(voices[i]) ELSE voices[i]]

\* a plausible slip: the voices already holding the note are left sounding
Part_analog_note_on_no_gate_off(p, note) ==
  LET free == {i \in VoiceIdx : ~Voice_is_active(p.voices[i])}
      i == IF free # {} THEN CHOOSE a \in free : \A b \in free : a <= b ELSE p.next_voice
      nv == IF free # {} THEN p.next_voice ELSE (p.next_voice + 1) % NumVoices
  IN  [p EXCEPT !.voices[i] = Voice_note_on(p.voices[i], note), !.next_voice = nv]

Part_analog_note_on(p, note) ==
  LET mid == GateOffSameNote(p.voices, note)
      free == {i \in VoiceIdx : ~Voice_is_active(mid[i])}
      i == IF free # {} THEN CHOOSE a \in free : \A b \in free : a <= b ELSE p.next_voice
      nv == IF free # {} THEN p.next_voice ELSE (p.next_voice + 1) % NumVoices
  IN  [p EXCEPT !.voices = [mid EXCEPT ![i] = Voice_note_on(mid[i], note)],
                !.next_voice = nv]

\* module kinds 2, 3 and 5 (karplus, resonator, drum) own state that this
\* model does not hold; any value outside 0..5 drops the note
Part_note_on(p, ps, idx, note) ==
  LET mk == ModuleKind(ps, idx)
  IN  IF mk = 0 THEN Part_analog_note_on(p, note)
      ELSE IF mk = 1 THEN [p EXCEPT !.acid = Acid303_note_on(p.acid, note)]
      ELSE IF mk = 4 THEN [p EXCEPT !.sampler = Sampler_note_on(p.sampler, note)]
      ELSE p

\* every module of the part is told, whatever the module kind
Part_note_off(p, note) ==
  [p EXCEPT !.voices = GateOffSameNote(p.voices, note),
            !.acid = Acid303_note_off(p.acid, note),
            !.sampler = Sampler_note_off(p.sampler, note)]

Part_load_sample(p, path) == [p EXCEPT !.sampler = Sampler_load_sample(p.sampler, path)]

Part_clear_sample(p) == [p EXCEPT !.sampler = Sampler_clear_sample(p.sampler)]

\* the analog voices of a part sound on this frame: an active voice was
\* rendered with its envelope above the floor
AnalogDry(before, after) == \E i \in VoiceIdx : Voice_is_active(before[i]) /\ after[i].env > 0

\* the sampler of a part sounds on this frame: a triggered voice is active
\* with its envelope above the floor (the sample data is taken as non-zero)
SamplerDry(s) ==
  /\ s.length_samples > 0
  /\ \E i \in VoiceIdx : /\ s.voices[i].trigger_serial > 0
                          /\ SamplerVoice_is_active(s.voices[i])
                          /\ s.voices[i].level > 0

\* module dispatch of Part::render and the FX1 stage that follows it (the other
\* slots, the EQ and the mixer hold no state that this model keeps; karplus,
\* resonator and drum are never triggered here and stay silent)
Part_render(p, ps, idx, beat_phase) ==
  LET WithSampler(sm) ==
        [p EXCEPT !.sampler = sm, !.fx1 = Part_fx1(@, ps, idx, SamplerDry(sm), 4)]
      WithVoices(vs) ==
        [p EXCEPT !.voices = vs, !.fx1 = Part_fx1(@, ps, idx, AnalogDry(p.voices, vs), 0)]
      WithAcid(a) == [p EXCEPT !.acid = a, !.fx1 = Part_fx1(@, ps, idx, AcidDry(a), 1)]
      Module(module) ==
        IF module = 4
        THEN WithSampler(Sampler_render_one(p.sampler, ps, SamplerKeys(idx), beat_phase))
        ELSE IF module = 1 THEN WithAcid(Acid303_render_one(p.acid))
        ELSE IF module \in {2, 3, 5}
        THEN [p EXCEPT !.fx1 = Part_fx1(@, ps, idx, FALSE, module)]
        ELSE WithVoices([i \in VoiceIdx |->
                           IF Voice_is_active(p.voices[i]) THEN Voice_render(p.voices[i])
                           ELSE p.voices[i]])
  IN  Module(ModuleKind(ps, idx))

----------------------------------------------------------------------------
(* audio.rs: the state owned by the output callback, apply_msg and the    *)
(* frame loop.  E is the record of everything the callback closure owns.  *)

Msg(kind, part, arg) == [kind |-> kind, part |-> part, arg |-> arg, id |-> 0]

Engine ==
  [params |-> params, lastSet |-> lastSet, transport |-> transport,
   lastPhaseRet |-> lastPhaseRet, graphBpm |-> graphBpm, playing |-> playing,
   recording |-> recording, recordedLen |-> recordedLen, parts |-> parts,
   playhead |-> playhead, preview |-> preview, panicked |-> panicked,
   cbFileOps |-> cbFileOps, applied |-> applied,
   saved |-> 0]     \* files written by save_recorded_samples while this record is worked on

EngineGraph_set_tempo(bpm) == Clamp(bpm, BpmMin, BpmMax)

EngineGraph_load_preview_sample(pv, path) ==
  [sampler |-> Sampler_note_on(Sampler_load_sample(pv.sampler, path), 60),
   playing |-> TRUE]

EngineGraph_stop_preview(pv) ==
  [sampler |-> Sampler_note_off(pv.sampler, 60), playing |-> FALSE]

apply_msg(E, msg) ==
  LET inRange == msg.part \in PartIdx
      R == CASE msg.kind = "SetParam" ->
                  [E EXCEPT !.params = ParamStore_set(E.params, msg.arg.path, msg.arg.value),
                            !.lastSet = MapInsert(E.lastSet, msg.arg.path, msg.arg.value)]
             [] msg.kind = "NoteOn" ->
                  IF inRange
                  THEN [E EXCEPT !.parts[msg.part] =
                          Part_note_on(E.parts[msg.part], E.params, msg.part, msg.arg)]
                  ELSE E
             [] msg.kind = "NoteOff" ->
                  IF inRange
                  THEN [E EXCEPT !.parts[msg.part] = Part_note_off(E.parts[msg.part], msg.arg)]
                  ELSE E
             [] msg.kind = "SetTempo" ->
                  [E EXCEPT !.graphBpm = EngineGraph_set_tempo(msg.arg),
                            !.transport = set_bpm(E.transport, msg.arg)]
             [] msg.kind = "Transport" ->
                  [E EXCEPT !.playing = msg.arg,
                            !.transport = set_running(E.transport, msg.arg)]
             [] msg.kind = "StartRecording" ->
                  [E EXCEPT !.recording = TRUE, !.recordedLen = 0]
             [] msg.kind = "StopRecording" ->
                  \* save_recorded_samples: create_dir_all and File::create
                  [E EXCEPT !.recording = FALSE,
                            !.cbFileOps = IF E.recordedLen > 0
                                          THEN @ \cup {"write_recording"} ELSE @,
                            !.saved = IF E.recordedLen > 0 THEN @ + 1 ELSE @]
             [] msg.kind = "LoadSample" ->
                  \* Sampler::load_audio_file: File::open and decode
                  IF inRange
                  THEN [E EXCEPT !.parts[msg.part] = Part_load_sample(E.parts[msg.part], msg.arg),
                                 !.cbFileOps = @ \cup {"open_sample"}]
                  ELSE E
             [] msg.kind = "ClearSample" ->
                  IF inRange
                  THEN [E EXCEPT !.parts[msg.part] = Part_clear_sample(E.parts[msg.part])]
                  ELSE E
             [] msg.kind = "PreviewSample" ->
                  [E EXCEPT !.preview = EngineGraph_load_preview_sample(E.preview, msg.arg),
                            !.cbFileOps = @ \cup {"open_preview"}]
             [] msg.kind = "LoadDrumPack" ->
                  \* DrumSampler::load_pack: File::open for each path of the pack
                  IF inRange /\ Len(msg.arg) > 0
                  THEN [E EXCEPT !.cbFileOps = @ \cup {"open_drum_sample"}]
                  ELSE E
             [] msg.kind = "StopPreview" ->
                  [E EXCEPT !.preview = EngineGraph_stop_preview(E.preview)]
             [] msg.kind = "Quit" -> E
             [] OTHER -> E
  IN  R

\* state.rs
set_playhead_state(ph, part, state) == IF part \in DOMAIN ph THEN [ph EXCEPT ![part] = state] ELSE ph

get_playhead_state(ph, part) == IF part \in DOMAIN ph THEN ph[part] ELSE None

\* the playhead loop of render_frame, from part i on; stops at a panic
RECURSIVE UpdatePlayheads(_, _, _, _)
UpdatePlayheads(ph, ps, pts, i) ==
  IF i >= NumParts THEN [playhead |-> ph, panicked |-> FALSE]
  ELSE LET module == ModuleKind(ps, i)
       IN  IF module = 4
           THEN LET st == Sampler_compute_playhead_state(pts[i].sampler, ps, SamplerKeys(i))
                IN  IF st.tag = "panic" THEN [playhead |-> ph, panicked |-> TRUE]
                    ELSE UpdatePlayheads(set_playhead_state(ph, i, st), ps, pts, i + 1)
           ELSE IF module = 5
                THEN UpdatePlayheads(set_playhead_state(ph, i, None), ps, pts, i + 1)
                ELSE UpdatePlayheads(ph, ps, pts, i + 1)

\* EngineGraph::render_frame (Mixer::mix renders every part in turn)
render_frame(E) ==
  LET Preview(sm) == [sampler |-> sm, playing |-> Sampler_is_playing(sm)]
      Finish(pts, up) ==
        [E EXCEPT !.parts = pts, !.playhead = up.playhead, !.panicked = up.panicked,
                  !.preview =
                     IF E.preview.playing /\ ~up.panicked
                     THEN Preview(Sampler_render_one(E.preview.sampler, E.params,
                                                     PreviewKeys, E.lastPhaseRet))
                     ELSE E.preview]
      Rendered(pts) == Finish(pts, UpdatePlayheads(E.playhead, E.params, pts, 0))
  IN  Rendered([i \in PartIdx |-> Part_render(E.parts[i], E.params, i, E.lastPhaseRet)])

\* one frame of the callback's loop
CallbackFrame(E) ==
  LET Record(E2) ==
        IF E2.panicked THEN E2
        ELSE [E2 EXCEPT !.recordedLen = IF E2.recording THEN Min(@ + 1, MaxRecorded) ELSE @]
      Frame(E1) == IF E.playing THEN Record(render_frame(E1)) ELSE E1
      Tick(t) == Frame([E EXCEPT !.transport = t, !.lastPhaseRet = F32Round(t.phase)])
  IN  Tick(phase_for_next_sample(E.transport))

RECURSIVE CallbackFrames(_, _)
CallbackFrames(E, n) ==
  IF n = 0 \/ E.panicked THEN E ELSE CallbackFrames(CallbackFrame(E), n - 1)

\* a plausible slip: the drain loop has no cap
DrainCount_all(q) == Len(q)

\* the drain loop: try_recv until Empty or until 1024 messages were taken
DrainCount(q) == Min(Len(q), DrainCap)

\* apply msgs[lo..hi] in order; the first half is applied before the second
RECURSIVE ApplyRange(_, _, _, _)
ApplyRange(E, msgs, lo, hi) ==
  IF lo > hi THEN E
  ELSE IF lo = hi THEN [apply_msg(E, msgs[lo]) EXCEPT !.applied = Append(@, msgs[lo].id)]
  ELSE LET mid == (lo + hi) \div 2
       IN  CHOOSE r \in {ApplyRange(e, msgs, mid + 1, hi) :
                           e \in {ApplyRange(E, msgs, lo, mid)}} : TRUE

----------------------------------------------------------------------------
(* The file system seen by commands.rs.  A path is a tuple of components; *)
(* a relative path string is a tuple whose first component is not "/".    *)
(* A node is a directory, a file or a symbolic link to a target path.      *)

Docs == <<"docs">>

FsFull ==
  [docs |-> TRUE,
   nodes |-> (<<"docs">> :> [kind |-> "dir"]) @@
             (<<"docs", "subsamples">> :> [kind |-> "dir"]) @@
             (<<"docs", "subsamples", "a.wav">> :> [kind |-> "file"]) @@
             (<<"docs", "subsamples", "sub">> :> [kind |-> "dir"]) @@
             (<<"docs", "subsamples", "link.wav">> :> [kind |-> "link", target |-> <<"docs", "secret.wav">>]) @@
             (<<"docs", "secret.wav">> :> [kind |-> "file"]) @@
             (<<"docs", "Drums">> :> [kind |-> "dir"]) @@
             (<<"docs", "Drums", "kit">> :> [kind |-> "dir"]) @@
             (<<"docs", "Drums", "kit", "kick.wav">> :> [kind |-> "file"]) @@
             (<<"docs", "Drums", "bare">> :> [kind |-> "dir"])]

FsBare == [docs |-> TRUE, nodes |-> (<<"docs">> :> [kind |-> "dir"])]

FsNoDocs == [docs |-> FALSE, nodes |-> (<<"docs">> :> [kind |-> "dir"])]

FsStates == {FsFull, FsBare, FsNoDocs}

\* dirs::document_dir()
document_dir(fs) == IF fs.docs THEN [tag |-> "Some", path |-> Docs] ELSE None

IsPrefix(a, b) == Len(a) <= Len(b) /\ SubSeq(b, 1, Len(a)) = a

\* std::fs::canonicalize: resolves "..", "." and links; fails when a component is missing
RECURSIVE Canon(_, _, _)
Canon(fs, resolved, rest) ==
  IF rest = <<>> THEN [tag |-> "Ok", path |-> resolved]
  ELSE LET head == Head(rest)
           tail == Tail(rest)
       IN  IF head = "." THEN Canon(fs, resolved, tail)
           ELSE IF head = ".."
           THEN Canon(fs, IF resolved = <<>> THEN <<>>
                          ELSE SubSeq(resolved, 1, Len(resolved) - 1), tail)
           ELSE LET cand == Append(resolved, head)
                IN  IF cand \notin DOMAIN fs.nodes THEN [tag |-> "Err", path |-> <<>>]
                    ELSE IF fs.nodes[cand].kind = "link"
                         THEN Canon(fs, <<>>, fs.nodes[cand].target \o tail)
                    ELSE IF fs.nodes[cand].kind = "file" /\ tail # <<>>
                         THEN [tag |-> "Err", path |-> <<>>]
                    ELSE Canon(fs, cand, tail)

canonicalize(fs, path) == Canon(fs, <<>>, path)

is_absolute(rel) == rel # <<>> /\ Head(rel) = "/"

Err(e) == [res |-> e, path |-> <<>>]
Ok(path) == [res |-> "Ok", path |-> path]

\* a plausible slip: the candidate is canonicalized but not checked against the base
resolve_subsample_path_unchecked(fs, documents_dir, rel) ==
  IF rel = <<>> \/ is_absolute(rel) THEN Err("invalid_sample_path")
  ELSE IF canonicalize(fs, documents_dir \o <<"subsamples">>).tag = "Err"
       THEN Err("canonicalize_subsamples")
  ELSE IF canonicalize(fs, documents_dir \o <<"subsamples">> \o rel).tag = "Err"
       THEN Err("Sample file not found")
  ELSE Ok(canonicalize(fs, documents_dir \o <<"subsamples">> \o rel).path)

resolve_subsample_path(fs, documents_dir, rel) ==
  IF rel = <<>> THEN Err("invalid_sample_path")
  ELSE IF is_absolute(rel) THEN Err("invalid_sample_path")
  ELSE LET base_dir == documents_dir \o <<"subsamples">>
           base_real == canonicalize(fs, base_dir)
       IN  IF base_real.tag = "Err" THEN Err("canonicalize_subsamples")
           ELSE LET candidate_real == canonicalize(fs, base_dir \o rel)
                IN  IF candidate_real.tag = "Err" THEN Err("Sample file not found")
                    ELSE IF ~IsPrefix(base_real.path, candidate_real.path)
                         THEN Err("invalid_sample_path")
                    ELSE Ok(candidate_real.path)

\* the characters of the pack names the model offers
PackChars ==
  ("kit" :> <<"k", "i", "t">>) @@ ("bare" :> <<"b", "a", "r", "e">>) @@
  ("gone" :> <<"g", "o", "n", "e">>) @@ ("" :> <<>>) @@ ("a/b" :> <<"a", "/", "b">>)

AsciiAlnum == {"a", "b", "e", "g", "i", "k", "n", "o", "r", "t"}

validate_pack_name(pack) ==
  IF PackChars[pack] = <<>> THEN "invalid_pack_name"
  ELSE IF \E i \in DOMAIN PackChars[pack] : PackChars[pack][i] \notin AsciiAlnum \cup {"_", "-"}
       THEN "invalid_pack_name"
  ELSE "Ok"

resolve_pack_dir(fs, documents_dir, pack) ==
  IF validate_pack_name(pack) # "Ok" THEN Err(validate_pack_name(pack))
  ELSE LET drums_dir == documents_dir \o <<"Drums">>
           pack_dir == drums_dir \o <<pack>>
       IN  IF drums_dir \notin DOMAIN fs.nodes THEN Err("pack_not_found")
           ELSE IF pack_dir \notin DOMAIN fs.nodes THEN Err("pack_not_found")
           ELSE IF canonicalize(fs, drums_dir).tag = "Err" THEN Err("canonicalize_drums")
           ELSE IF canonicalize(fs, pack_dir).tag = "Err" THEN Err("canonicalize_pack")
           ELSE IF ~IsPrefix(canonicalize(fs, drums_dir).path, canonicalize(fs, pack_dir).path)
                THEN Err("invalid_pack_name")
           ELSE Ok(canonicalize(fs, pack_dir).path)

\* the audio files directly inside dir, sorted (the model's packs hold at most one)
RECURSIVE SortedSeq(_)
SortedSeq(S) ==
  IF S = {} THEN <<>>
  ELSE LET x == CHOOSE y \in S : TRUE IN <<x>> \o SortedSeq(S \ {x})

PackFiles(fs, dir) ==
  SortedSeq({n \in DOMAIN fs.nodes :
               Len(n) = Len(dir) + 1 /\ IsPrefix(dir, n) /\ fs.nodes[n].kind = "file"})

----------------------------------------------------------------------------
(* Initial state: the process before start_audio.  The graph, parameter   *)
(* store and clock are the ones AudioEngine::new and start construct.     *)

NoDevice == "none"
Devices == {"devA", "devB"}

NoResult == [cmd |-> "none", res |-> "none", fs |-> FsFull, arg |-> <<>>, val |-> None]

Result(cmd, res, fs, arg, val) == [cmd |-> cmd, res |-> res, fs |-> fs, arg |-> arg, val |-> val]

EngineGraph_new_parts(sr) == [i \in PartIdx |-> Part_new(sr)]

\* audio.rs start: spec_buf, m_count, and the two sideband channels start empty
\* commands.rs 12, 79-97: no start_audio call in flight, no stream, ENGINE_TX
\* empty.  pc is where each calling thread stands inside start_audio.
Callers == 1 .. NumCallers

Boot_new == [pc |-> [t \in Callers |-> "idle"], streams |-> {}, ENGINE_TX |-> None]

\* fs_api.rs 36-44: Project::default(); a sound is its id and part_index
\* (kind and name play no part in how project.json is written)
ProjectBpm == 120

Project_default == [sounds |-> <<>>, global_bpm |-> ProjectBpm]

\* fs_api.rs 95-97, 183: project.json does not exist, WRITE_WORKERS has no
\* entry for it, ID_COUNTER is 1.  chan is the writer's channel, pending and
\* pc the writer thread's local and position, ui the project the front end
\* edits.  issued numbers the commands; last is the content the command
\* issued last asked for, direct the last write made by create_sound or
\* delete_sound.
Disk_new ==
  [file |-> None, WRITE_WORKERS |-> FALSE, chan |-> <<>>, pending |-> None, pc |-> "recv",
   ID_COUNTER |-> 1, ui |-> Project_default, issued |-> 0, last |-> None,
   direct |-> [n |-> 0, added |-> {}, removed |-> {}]]

Tap_new == [spec_buf |-> 0, m_count |-> 0, spec_rx |-> 0, meter_rx |-> 0]

init_playhead_states == [i \in PartIdx |-> None]

\* the state after construction, for a device running at sample rate sr
InitAt(sr) ==
  /\ engineTx = FALSE
  /\ defaultDevice = "devA"
  /\ streamDev = NoDevice
  /\ lastDeviceName = NoDevice
  /\ streamsBuilt = 0
  /\ startDev = NoDevice
  /\ lastResult = NoResult
  /\ queue = <<>>
  /\ nextId = 0
  /\ applied = <<>>
  /\ lastDrained = <<>>
  /\ pingThreads = 0
  /\ bursts = 0
  /\ params = ParamStore_new
  /\ lastSet = EmptyMap
  /\ transport = TransportClock_new(sr, DefaultBpm)
  /\ lastPhaseRet = 0
  /\ graphBpm = DefaultBpm
  /\ playing = TRUE
  /\ recording = FALSE
  /\ recordedLen = 0
  /\ parts = EngineGraph_new_parts(sr)
  /\ playhead = init_playhead_states
  /\ preview = [sampler |-> Sampler_new(sr), playing |-> FALSE]
  /\ panicked = FALSE
  /\ cbFileOps = {}
  /\ framesOut = "none"
  /\ ticks = 0
  /\ connected = TRUE
  /\ quitApplied = FALSE
  /\ sinceRestart = 0
  /\ tap = Tap_new
  /\ wavFiles = 0
  /\ boot = Boot_new
  /\ disk = Disk_new

Init == InitAt(SampleRate)

\* write the callback-owned record back to the variables
SetEngine(E) ==
  /\ params' = E.params
  /\ lastSet' = E.lastSet
  /\ transport' = E.transport
  /\ lastPhaseRet' = E.lastPhaseRet
  /\ graphBpm' = E.graphBpm
  /\ playing' = E.playing
  /\ recording' = E.recording
  /\ recordedLen' = E.recordedLen
  /\ parts' = E.parts
  /\ playhead' = E.playhead
  /\ preview' = E.preview
  /\ panicked' = E.panicked
  /\ cbFileOps' = E.cbFileOps
  /\ applied' = E.applied

----------------------------------------------------------------------------
(* commands.rs *)

\* tx.send(msg) on the unbounded channel
Send(msg) ==
  /\ queue' = Append(queue, [msg EXCEPT !.id = nextId + 1])
  /\ nextId' = nextId + 1

NoSend == UNCHANGED <<queue, nextId>>

\* AudioEngine::start: the device check and the stream build
AudioEngine_start ==
  IF streamDev # NoDevice /\ lastDeviceName # NoDevice /\ defaultDevice = lastDeviceName
  THEN UNCHANGED <<streamDev, lastDeviceName, streamsBuilt>>
  ELSE /\ streamDev' = defaultDevice
       /\ lastDeviceName' = defaultDevice
       /\ streamsBuilt' = streamsBuilt + 1

start_audio ==
  /\ IF engineTx
     THEN /\ lastResult' = Result("start_audio", "Ok", FsFull, <<>>, None)
          /\ startDev' = defaultDevice
          /\ UNCHANGED <<engineTx, defaultDevice, streamDev, lastDeviceName, streamsBuilt>>
     ELSE IF defaultDevice = NoDevice
     THEN \* AudioEngine::new or start fails: "no output device"
          /\ lastResult' = Result("start_audio", "no output device", FsFull, <<>>, None)
          /\ UNCHANGED ctlVars
     ELSE /\ AudioEngine_start
          /\ engineTx' = TRUE
          /\ startDev' = defaultDevice
          /\ lastResult' = Result("start_audio", "Ok", FsFull, <<>>, None)
          /\ UNCHANGED defaultDevice
  /\ UNCHANGED <<auxVars, chanVars, audioVars>>

\* the environment: the host's default output device changes
DeviceChange ==
  /\ \E d \in Devices \cup {NoDevice} : d # defaultDevice /\ defaultDevice' = d
  /\ UNCHANGED <<engineTx, streamDev, lastDeviceName, streamsBuilt, startDev, lastResult,
                 auxVars, chanVars, audioVars>>

\* the shape shared by the commands that only send one message
\* a plausible slip: the message is sent although no engine was started
SendOrFail_always(cmd, msg, okVal) ==
  /\ nextId < MaxSent
  /\ Send(msg)
  /\ lastResult' = Result(cmd, "Ok", FsFull, <<>>, okVal)
  /\ UNCHANGED <<auxVars, ctlVars, lastDrained, pingThreads, bursts, audioVars>>

SendOrFail(cmd, msg, okVal) ==
  /\ nextId < MaxSent
  /\ IF engineTx
     THEN /\ Send(msg)
          /\ lastResult' = Result(cmd, "Ok", FsFull, <<>>, okVal)
     ELSE /\ NoSend
          /\ lastResult' = Result(cmd, "engine not started", FsFull, <<>>, None)
  /\ UNCHANGED <<auxVars, ctlVars, lastDrained, pingThreads, bursts, audioVars>>

(* Inputs the model offers to the commands *)
ParamInputs ==
  {[path |-> PathModuleKind(0), value |-> I32(4)],
   [path |-> PathSampleStart(0), value |-> F32(8)],
   [path |-> PathSampleEnd(0), value |-> F32(2)]}
PartInputs == {0}
NoteInputs == {60}
BpmInputs == {20, 300}
RelPaths == {<<"a.wav">>, <<"..", "secret.wav">>}
PackInputs == {"kit", "gone"}

(* The wider inputs of the command-layer specification *)
AllParts == {0, NumParts - 1, NumParts}
AllRelPaths ==
  {<<>>, <<"/", "etc", "passwd">>, <<"a.wav">>, <<"..", "secret.wav">>, <<"link.wav">>,
   <<"ghost.wav">>, <<"sub", "..", "a.wav">>}
AllPacks == {"kit", "bare", "gone", "", "a/b"}

stop_audio ==
  /\ nextId < MaxSent
  /\ IF engineTx THEN Send(Msg("Transport", 0, FALSE)) ELSE NoSend
  /\ lastResult' = Result("stop_audio", "Ok", FsFull, <<>>, None)
  /\ UNCHANGED <<auxVars, ctlVars, lastDrained, pingThreads, bursts, audioVars>>

set_param == \E pv \in ParamInputs : SendOrFail("set_param", Msg("SetParam", 0, pv), None)

note_on ==
  \E part \in PartInputs, note \in NoteInputs :
    SendOrFail("note_on", Msg("NoteOn", part, note), None)

note_off ==
  \E part \in PartInputs, note \in NoteInputs :
    SendOrFail("note_off", Msg("NoteOff", part, note), None)

set_tempo == \E bpm \in BpmInputs : SendOrFail("set_tempo", Msg("SetTempo", 0, bpm), None)

set_transport ==
  \E p \in BOOLEAN : SendOrFail("set_transport", Msg("Transport", 0, p), None)

\* sends NoteOn and spawns a thread that sends NoteOff one second later
debug_ping ==
  /\ nextId < MaxSent
  /\ IF engineTx
     THEN /\ Send(Msg("NoteOn", 0, 60))
          /\ pingThreads' = pingThreads + 1
          /\ lastResult' = Result("debug_ping", "Ok", FsFull, <<>>, None)
     ELSE /\ NoSend
          /\ UNCHANGED pingThreads
          /\ lastResult' = Result("debug_ping", "engine not started", FsFull, <<>>, None)
  /\ UNCHANGED <<auxVars, ctlVars, lastDrained, bursts, audioVars>>

\* the thread spawned by debug_ping, after its sleep
debug_ping_thread ==
  /\ pingThreads > 0
  /\ Send(Msg("NoteOff", 0, 60))
  /\ pingThreads' = pingThreads - 1
  /\ UNCHANGED <<auxVars, ctlVars, lastResult, lastDrained, bursts, audioVars>>

start_recording == SendOrFail("start_recording", Msg("StartRecording", 0, 0), None)

stop_recording ==
  SendOrFail("stop_recording", Msg("StopRecording", 0, 0),
             [tag |-> "Some", name |-> "sample1.wav"])

\* load_sample and preview_sample: resolve the path first, then look for the engine
SendResolved(cmd, kind, part, fs, rel) ==
  /\ nextId < MaxSent
  /\ IF document_dir(fs).tag = "None"
     THEN /\ NoSend
          /\ lastResult' = Result(cmd, "Could not find documents directory", fs, rel, None)
     ELSE LET r == resolve_subsample_path(fs, document_dir(fs).path, rel)
          IN  IF r.res # "Ok"
              THEN /\ NoSend
                   /\ lastResult' = Result(cmd, r.res, fs, rel, None)
              ELSE IF engineTx
              THEN /\ Send(Msg(kind, part, r.path))
                   /\ lastResult' = Result(cmd, "Ok", fs, rel, None)
              ELSE /\ NoSend
                   /\ lastResult' = Result(cmd, "engine not started", fs, rel, None)
  /\ UNCHANGED <<auxVars, ctlVars, lastDrained, pingThreads, bursts, audioVars>>

load_sample_in(P, F, R) ==
  \E part \in P, fs \in F, rel \in R : SendResolved("load_sample", "LoadSample", part, fs, rel)

load_sample == load_sample_in(PartInputs, {FsFull}, RelPaths)

clear_sample ==
  \E part \in PartInputs : SendOrFail("clear_sample", Msg("ClearSample", part, 0), None)

preview_sample_in(F, R) ==
  \E fs \in F, rel \in R : SendResolved("preview_sample", "PreviewSample", 0, fs, rel)

preview_sample == preview_sample_in({FsFull}, RelPaths)

stop_preview == SendOrFail("stop_preview", Msg("StopPreview", 0, 0), None)

get_sampler_playhead ==
  /\ \E part \in AllParts :
       lastResult' = Result("get_sampler_playhead", "Ok", FsFull, <<part>>,
                            get_playhead_state(playhead, part))
  /\ UNCHANGED <<auxVars, ctlVars, chanVars, audioVars>>

load_drum_pack_in(P, F, K) ==
  /\ nextId < MaxSent
  /\ \E part \in P, fs \in F, pack \in K :
       IF document_dir(fs).tag = "None"
       THEN /\ NoSend
            /\ lastResult' = Result("load_drum_pack", "Could not find documents directory",
                                    fs, <<pack>>, None)
       ELSE LET r == resolve_pack_dir(fs, document_dir(fs).path, pack)
            IN  IF r.res # "Ok"
                THEN /\ NoSend
                     /\ lastResult' = Result("load_drum_pack", r.res, fs, <<pack>>, None)
                ELSE IF engineTx
                THEN /\ Send(Msg("LoadDrumPack", part, PackFiles(fs, r.path)))
                     /\ lastResult' = Result("load_drum_pack", "Ok", fs, <<pack>>, None)
                ELSE /\ NoSend
                     /\ lastResult' = Result("load_drum_pack", "engine not started",
                                             fs, <<pack>>, None)
  /\ UNCHANGED <<auxVars, ctlVars, lastDrained, pingThreads, bursts, audioVars>>

load_drum_pack == load_drum_pack_in(PartInputs, {FsFull}, PackInputs)

----------------------------------------------------------------------------
(* audio.rs: the output callback.  It runs once a stream exists, drains   *)
(* the channel (at most DrainCap messages) and renders one buffer.  A     *)
(* panic ends the audio thread.                                           *)

Callback(maxCallbacks) ==
  /\ streamDev # NoDevice
  /\ ~panicked
  /\ ticks < maxCallbacks
  /\ LET Write(E1, E2) ==
           /\ SetEngine(E2)
           /\ framesOut' = IF E2.panicked THEN "none"
                           ELSE IF E1.playing THEN "rendered" ELSE "silence"
         Frames(E1) == Write(E1, CallbackFrames(E1, FramesPerBuffer))
         Drain(n) ==
           /\ Frames(ApplyRange(Engine, queue, 1, n))
           /\ queue' = SubSeq(queue, n + 1, Len(queue))
           /\ lastDrained' = SubSeq(queue, 1, n)
     IN  Drain(DrainCount(queue))
  /\ ticks' = ticks + 1
  /\ UNCHANGED <<auxVars, ctlVars, lastResult, nextId, pingThreads, bursts>>

AudioCallback == Callback(MaxCallbacks)

Next ==
  \/ start_audio
  \/ DeviceChange
  \/ stop_audio
  \/ set_param
  \/ note_on
  \/ note_off
  \/ set_tempo
  \/ set_transport
  \/ debug_ping
  \/ debug_ping_thread
  \/ start_recording
  \/ stop_recording
  \/ load_sample
  \/ clear_sample
  \/ preview_sample
  \/ stop_preview
  \/ get_sampler_playhead
  \/ load_drum_pack
  \/ AudioCallback

Spec == Init /\ [][Next]_vars

----------------------------------------------------------------------------
(* SpecParams: the parameter store under the dispatcher's SetParam arm.   *)

StorePaths ==
  {PathModuleKind(0), PathSampleStart(0), PathSampleStart(1), PathSampleEnd(0),
   PathMixerGain(0)}
StoreValues == {F32(2), F32(8), I32(4), BoolV(TRUE)}

ApplySetParam ==
  /\ ticks < MaxSets
  /\ \E path \in StorePaths, value \in StoreValues :
       LET E == apply_msg(Engine, Msg("SetParam", 0, [path |-> path, value |-> value]))
       IN  /\ params' = E.params
           /\ lastSet' = E.lastSet
  /\ ticks' = ticks + 1
  /\ UNCHANGED <<auxVars, ctlVars, chanVars, lastResult, transport, lastPhaseRet, graphBpm, playing,
                 recording, recordedLen, parts, playhead, preview, panicked, cbFileOps,
                 framesOut, applied>>

NextParams == ApplySetParam

SpecParams == Init /\ [][NextParams]_vars

Defaults == {-1, 7}

\* the key a reader computes once for each path: hash_path(p)
StoreKey == [p \in StorePaths |-> hash_path(p)]

\* C2: after any sequence of SetParams the string-keyed and the hash-keyed map
\* hold, for every path, the value of the last SetParam on it; a hashed typed
\* read with hash_path(p) returns that value, and the default for a path that
\* was never set (or whose last value has another type).
C2_HashedReadsSeeLastSet ==
  \A p \in StorePaths, d \in Defaults :
    LET key == StoreKey[p]
    IN  IF p \in DOMAIN lastSet
        THEN /\ p \in DOMAIN params.map /\ params.map[p] = lastSet[p]
             /\ key \in DOMAIN params.map_h /\ params.map_h[key] = lastSet[p]
             /\ get_f32_h(params, key, d) = (IF lastSet[p].t = "F32" THEN lastSet[p].v ELSE d)
             /\ get_i32_h(params, key, d) = (IF lastSet[p].t = "I32" THEN lastSet[p].v ELSE d)
             /\ get_f32_h(params, key, d) = get_f32(params, p, d)
             /\ get_i32_h(params, key, d) = get_i32(params, p, d)
        ELSE /\ p \notin DOMAIN params.map
             /\ get_f32_h(params, key, d) = d
             /\ get_i32_h(params, key, d) = d

\* a path was overwritten, one holds 0.8 and one was never set
C2_Witness ==
  /\ ticks > Cardinality(DOMAIN lastSet)
  /\ Cardinality(DOMAIN lastSet) >= 2
  /\ get_f32_h(params, KeySampleStart[0], 0) = 8
  /\ PathSampleEnd(0) \notin DOMAIN lastSet

----------------------------------------------------------------------------
(* SpecClock: the TransportClock under its three methods, as the callback *)
(* calls them (SetTempo, Transport, and once per frame).                  *)

ClockBpmInputs == {0, 40, 90, 300, 1000}

ClockSetBpm ==
  /\ \E bpm \in ClockBpmInputs : transport' = set_bpm(transport, bpm)
  /\ UNCHANGED <<auxVars, ctlVars, chanVars, lastResult, params, lastSet, lastPhaseRet, graphBpm,
                 playing, recording, recordedLen, parts, playhead, preview, panicked,
                 cbFileOps, framesOut, ticks, applied>>

ClockSetRunning ==
  /\ \E r \in BOOLEAN : transport' = set_running(transport, r)
  /\ UNCHANGED <<auxVars, ctlVars, chanVars, lastResult, params, lastSet, lastPhaseRet, graphBpm,
                 playing, recording, recordedLen, parts, playhead, preview, panicked,
                 cbFileOps, framesOut, ticks, applied>>

ClockTick ==
  /\ transport' = phase_for_next_sample(transport)
  /\ lastPhaseRet' = F32Round(transport'.phase)
  /\ framesOut' = IF transport.running THEN "advanced" ELSE "held"
  /\ UNCHANGED <<auxVars, ctlVars, chanVars, lastResult, params, lastSet, graphBpm,
                 playing, recording, recordedLen, parts, playhead, preview, panicked,
                 cbFileOps, ticks, applied>>

NextClock == ClockSetBpm \/ ClockSetRunning \/ ClockTick

SpecClock == Init /\ [][NextClock]_vars

\* C5: while the clock is stopped, phase_for_next_sample returns the held
\* phase, and no step (a tick, set_bpm, set_running) changes the phase or the
\* sample counter, so a resumed clock continues from exactly the held phase.
C5_StoppedClockHolds ==
  [][ /\ (~transport.running =>
            /\ transport'.phase = transport.phase
            /\ transport'.sample_counter = transport.sample_counter)
      /\ ((ClockTick /\ ~transport.running) => lastPhaseRet' = transport.phase)
      /\ ((ClockTick /\ transport.running) =>
            /\ transport'.phase = (transport.phase + transport.bpm) % PhaseDen(transport.sr)
            /\ lastPhaseRet' = transport'.phase) ]_vars

\* a stopped clock, ticked, holding a phase it reached at another tempo
C5_Witness ==
  /\ ~transport.running
  /\ framesOut = "held"
  /\ transport.phase > 0
  /\ lastPhaseRet = transport.phase
  /\ transport.bpm # DefaultBpm

\* C6: in every reachable clock state bpm is within [40, 300], beats_per_sample
\* equals (bpm / 60) / sr, and the phase lies in [0, 1).
C6_ClockInvariant ==
  /\ transport.bpm >= BpmMin /\ transport.bpm <= BpmMax
  /\ transport.beats_per_sample * 60 * transport.sr = transport.bpm * PhaseDen(transport.sr)
  /\ transport.phase >= 0 /\ transport.phase < PhaseDen(transport.sr)

\* the fastest tempo, after a tick that wrapped the phase
C6_Witness ==
  /\ transport.bpm = BpmMax
  /\ framesOut = "advanced"
  /\ transport.sample_counter > 0
  /\ transport.phase > 0 /\ transport.phase < transport.beats_per_sample

----------------------------------------------------------------------------
(* SpecQueue: the control channel under bursts of commands.  A burst is a *)
(* run of set_tempo calls made by the control side with no callback in    *)
(* between; each call is the set_tempo command above.                     *)

BurstSizes == {1, LargeBurst}

\* the tempo carried by the message numbered id
BurstBpm(id) == BpmMin + (id % (BpmMax - BpmMin + 1))

SendBurst ==
  /\ engineTx
  /\ bursts < MaxBursts
  /\ \E k \in BurstSizes :
       /\ queue' = queue \o [i \in 1 .. k |->
                      [Msg("SetTempo", 0, BurstBpm(nextId + i)) EXCEPT !.id = nextId + i]]
       /\ nextId' = nextId + k
  /\ bursts' = bursts + 1
  /\ lastResult' = Result("set_tempo", "Ok", FsFull, <<>>, None)
  /\ UNCHANGED <<auxVars, ctlVars, lastDrained, pingThreads, audioVars>>

QueueCallback == Callback(MaxDrains)

NextQueue == start_audio \/ SendBurst \/ QueueCallback

SpecQueue == Init /\ [][NextQueue]_vars

QueueIds == [i \in 1 .. Len(queue) |-> queue[i].id]

\* C1: messages are applied in the order sent, each exactly once; one callback
\* applies at most 1024 of them, taken from the front of the channel; what it
\* leaves stays ahead of every message sent later and is applied first by a
\* later callback.
C1_FifoExactlyOnce ==
  /\ [](/\ applied = [i \in 1 .. Len(applied) |-> i]
        /\ QueueIds = [i \in 1 .. Len(queue) |-> Len(applied) + i]
        /\ Len(applied) + Len(queue) = nextId
        /\ Len(lastDrained) <= DrainCap
        /\ (applied # <<>> => graphBpm = BurstBpm(Len(applied))))
  /\ [][ticks' # ticks =>
          /\ lastDrained' = SubSeq(queue, 1, Min(Len(queue), DrainCap))
          /\ applied' = applied \o [i \in 1 .. Len(lastDrained') |-> lastDrained'[i].id]
          /\ queue' = SubSeq(queue, Len(lastDrained') + 1, Len(queue))]_vars

\* a callback stopped at the cap, more was sent, and a later callback applied
\* the leftover and the later messages
C1_Witness ==
  /\ ticks >= 2
  /\ Len(applied) > DrainCap + LargeBurst
  /\ Len(lastDrained) > 0 /\ Len(lastDrained) < DrainCap
  /\ queue = <<>>

----------------------------------------------------------------------------
(* The callback taken apart: one message handled by the drain loop, and   *)
(* one frame rendered by the frame loop.  SpecSampler and SpecAnalog run   *)
(* the dispatcher and the renderer at this grain.                         *)

Dispatch(msgs, maxOps) ==
  /\ ~panicked
  /\ ticks < maxOps
  /\ \E msg \in msgs :
       /\ SetEngine([apply_msg(Engine, msg) EXCEPT !.applied = applied])
       /\ lastDrained' = <<msg>>
       /\ quitApplied' = (quitApplied \/ msg.kind = "Quit")
  /\ ticks' = ticks + 1
  /\ UNCHANGED <<connected, sinceRestart, extVars, ctlVars, lastResult, queue, nextId, pingThreads,
                 bursts, framesOut>>

RenderOne(maxOps) ==
  /\ ~panicked
  /\ ticks < maxOps
  /\ LET Write(E) ==
           /\ SetEngine(E)
           /\ framesOut' = IF E.panicked THEN "none"
                           ELSE IF playing THEN "rendered" ELSE "silence"
     IN  Write(CallbackFrames(Engine, 1))
  /\ lastDrained' = <<>>
  /\ ticks' = ticks + 1
  /\ UNCHANGED <<auxVars, ctlVars, lastResult, queue, nextId, pingThreads, bursts>>

SamplePath == <<"docs", "subsamples", "a.wav">>

SamplerMsgs ==
  {Msg("SetParam", 0, [path |-> PathModuleKind(0), value |-> I32(4)]),
   Msg("SetParam", 0, [path |-> PathSampleStart(0), value |-> F32(8)]),
   Msg("SetParam", 0, [path |-> PathSampleEnd(0), value |-> F32(2)]),
   Msg("LoadSample", 0, SamplePath),
   Msg("NoteOn", 0, 60),
   Msg("NoteOff", 0, 60)}

SamplerDispatch == Dispatch(SamplerMsgs, MaxSamplerOps)

SamplerRender == RenderOne(MaxSamplerOps)

NextSampler == SamplerDispatch \/ SamplerRender

SpecSampler == Init /\ [][NextSampler]_vars

\* C4: whatever messages arrive, out-of-domain parameters included (such as
\* sample_start above sample_end while a sampler voice is active), the audio
\* thread never panics.
C4_AudioThreadNeverPanics == ~panicked

----------------------------------------------------------------------------
(* SpecAnalog: the analog voice pool of part 0 under NoteOn, NoteOff and  *)
(* rendered frames (module_kind is left at its default, 0).               *)

NumNotes == 3
AnalogNotes == 60 .. (60 + NumNotes - 1)

AnalogMsgs ==
  {Msg("NoteOn", 0, n) : n \in AnalogNotes} \cup {Msg("NoteOff", 0, 60)}

AnalogDispatch == Dispatch(AnalogMsgs, MaxOps)

AnalogRender == RenderOne(MaxOps)

NextAnalog == AnalogDispatch \/ AnalogRender

SpecAnalog == Init /\ [][NextAnalog]_vars

\* the step handles NoteOn(n) for part 0
IsNoteOnStep == ticks' # ticks /\ lastDrained' # <<>> /\ lastDrained'[1].kind = "NoteOn"

NoteOfStep == lastDrained'[1].arg

\* voices of part 0 that are active and hold note n before the step
Holding(n) == {i \in VoiceIdx : parts[0].voices[i].note = n /\ Voice_is_active(parts[0].voices[i])}

\* voices that are not active once the holders of n have been gated off
FreeAfterGateOff(n) ==
  {i \in VoiceIdx : IF i \in Holding(n) THEN parts[0].voices[i].env = 0
                    ELSE ~Voice_is_active(parts[0].voices[i])}

\* voice t is the one the step triggered: gate opened on note n, level kept
TriggeredAt(t, n) ==
  parts'[0].voices[t] = [parts[0].voices[t] EXCEPT !.active = TRUE, !.note = n,
                                                   !.gate = TRUE, !.attacking = TRUE]

GatedOffAt(i) ==
  parts'[0].voices[i] = [parts[0].voices[i] EXCEPT !.active = FALSE, !.gate = FALSE,
                                                   !.attacking = FALSE]

\* the voice the allocation rule names, and the pointer after the step
AllocationRule(t, n) ==
  IF FreeAfterGateOff(n) # {}
  THEN /\ t \in FreeAfterGateOff(n) /\ \A j \in FreeAfterGateOff(n) : t <= j
       /\ parts'[0].next_voice = parts[0].next_voice
  ELSE /\ t = parts[0].next_voice
       /\ parts'[0].next_voice = (parts[0].next_voice + 1) % NumVoices

\* C10 (as stated): NoteOn(n) gates off the active holders of n, triggers the
\* first voice that is not active or, when all six are active, the voice at
\* the round-robin pointer, which then advances modulo 6; exactly one voice is
\* triggered, and on a steal the other five voices are unchanged.
C10_StealLeavesOthersUnchanged ==
  [][IsNoteOnStep =>
       \E t \in VoiceIdx :
         /\ AllocationRule(t, NoteOfStep)
         /\ TriggeredAt(t, NoteOfStep)
         /\ \A i \in VoiceIdx \ {t} :
              IF FreeAfterGateOff(NoteOfStep) = {}
              THEN parts'[0].voices[i] = parts[0].voices[i]
              ELSE IF i \in Holding(NoteOfStep) THEN GatedOffAt(i)
                   ELSE parts'[0].voices[i] = parts[0].voices[i]]_vars

\* C10 (amended): as above, but on a steal too the other five voices are
\* unchanged except those that were active and held n, which are gated off.
C10_NoteOnAllocation ==
  [][IsNoteOnStep =>
       \E t \in VoiceIdx :
         /\ AllocationRule(t, NoteOfStep)
         /\ TriggeredAt(t, NoteOfStep)
         /\ \A i \in VoiceIdx \ {t} :
              IF i \in Holding(NoteOfStep) THEN GatedOffAt(i)
              ELSE parts'[0].voices[i] = parts[0].voices[i]
         /\ \A i \in PartIdx \ {0} : parts'[i] = parts[i]]_vars

\* a steal has happened (the pointer has moved) and the last NoteOn also gated
\* off a sounding voice that held its note
C10_Witness ==
  /\ parts[0].next_voice = 1
  /\ lastDrained # <<>> /\ lastDrained[1].kind = "NoteOn"
  /\ parts[0].voices[0].note = lastDrained[1].arg /\ parts[0].voices[0].attacking
  /\ \E j \in VoiceIdx \ {0} :
       /\ parts[0].voices[j].note = lastDrained[1].arg
       /\ ~parts[0].voices[j].gate /\ parts[0].voices[j].env > 0
  /\ \A i \in VoiceIdx : Voice_is_active(parts[0].voices[i])

----------------------------------------------------------------------------
(* SpecCommands: the command layer alone (no callback runs), with every   *)
(* kind of path and pack name and every state of the file system.         *)

load_sample_any == load_sample_in(PartInputs, FsStates, AllRelPaths)

preview_sample_any == preview_sample_in(FsStates, AllRelPaths)

load_drum_pack_any == load_drum_pack_in(PartInputs, FsStates, AllPacks)

NextCommands ==
  \/ start_audio
  \/ DeviceChange
  \/ stop_audio
  \/ set_param
  \/ note_on
  \/ note_off
  \/ set_tempo
  \/ set_transport
  \/ debug_ping
  \/ debug_ping_thread
  \/ start_recording
  \/ stop_recording
  \/ load_sample_any
  \/ clear_sample
  \/ preview_sample_any
  \/ stop_preview
  \/ get_sampler_playhead
  \/ load_drum_pack_any

SpecCommands == Init /\ [][NextCommands]_vars

PathCmds == {"load_sample", "preview_sample"}

\* commands that send one message and touch no file
PlainCmds ==
  {"set_param", "note_on", "note_off", "set_tempo", "set_transport", "debug_ping",
   "start_recording", "stop_recording", "clear_sample", "stop_preview"}

\* the path of the last path command resolves inside the base
LastPathResolves ==
  /\ lastResult.fs.docs
  /\ resolve_subsample_path(lastResult.fs, Docs, lastResult.arg).res = "Ok"

BaseDir == Docs \o <<"subsamples">>

\* the relative path of the last path command is empty, absolute, not
\* canonicalizable, or canonical outside the base
LastPathBad ==
  \/ lastResult.arg = <<>>
  \/ is_absolute(lastResult.arg)
  \/ canonicalize(lastResult.fs, BaseDir \o lastResult.arg).tag = "Err"
  \/ ~IsPrefix(BaseDir, canonicalize(lastResult.fs, BaseDir \o lastResult.arg).path)

\* C8 (as stated): load_sample and preview_sample with an empty, absolute,
\* escaping or non-canonicalizable path return the invalid-sample-path error.
C8_BadPathIsInvalidSamplePath ==
  (lastResult.cmd \in PathCmds /\ lastResult.fs.docs /\ LastPathBad) =>
     lastResult.res = "invalid_sample_path"

\* C8 (amended): with a known documents directory, an empty or absolute path
\* returns invalid_sample_path; otherwise a base that cannot be canonicalized
\* returns canonicalize_subsamples, a path that cannot be canonicalized returns
\* "Sample file not found", and a path canonical outside the base returns
\* invalid_sample_path; none of these enqueues a message, and a LoadSample or
\* PreviewSample message is enqueued only by a call that returns Ok, carrying
\* the canonical path, which lies inside the canonical base.
C8_PathSandbox ==
  /\ []((lastResult.cmd \in PathCmds /\ lastResult.fs.docs) =>
          LET fs == lastResult.fs
              rel == lastResult.arg
              base == canonicalize(fs, BaseDir)
              cand == canonicalize(fs, BaseDir \o rel)
          IN  /\ (rel = <<>> \/ is_absolute(rel)) => lastResult.res = "invalid_sample_path"
              /\ (rel # <<>> /\ ~is_absolute(rel) /\ base.tag = "Err") =>
                    lastResult.res = "canonicalize_subsamples"
              /\ (rel # <<>> /\ ~is_absolute(rel) /\ base.tag = "Ok" /\ cand.tag = "Err") =>
                    lastResult.res = "Sample file not found"
              /\ (rel # <<>> /\ ~is_absolute(rel) /\ base.tag = "Ok" /\ cand.tag = "Ok"
                    /\ ~IsPrefix(base.path, cand.path)) =>
                    lastResult.res = "invalid_sample_path"
              /\ LastPathBad => lastResult.res \notin {"Ok", "engine not started"})
  /\ [][(queue' # queue /\ queue'[Len(queue')].kind \in {"LoadSample", "PreviewSample"}) =>
          LET fs == lastResult'.fs
              rel == lastResult'.arg
              base == canonicalize(fs, BaseDir)
              cand == canonicalize(fs, BaseDir \o rel)
          IN  /\ lastResult'.cmd \in PathCmds /\ lastResult'.res = "Ok"
              /\ fs.docs /\ rel # <<>> /\ ~is_absolute(rel)
              /\ base.tag = "Ok" /\ cand.tag = "Ok"
              /\ queue'[Len(queue')].arg = cand.path
              /\ IsPrefix(base.path, cand.path)]_vars

\* a path through a directory and back was enqueued in canonical form, and
\* an escaping link was refused
C8_Witness ==
  /\ lastResult.cmd = "load_sample"
  /\ lastResult.arg = <<"sub", "..", "a.wav">>
  /\ lastResult.res = "Ok"
  /\ queue # <<>> /\ queue[Len(queue)].arg = <<"docs", "subsamples", "a.wav">>

----------------------------------------------------------------------------
(* Claims checked on the whole system, Spec *)

\* C3: the audio callback never opens, reads or writes a file, whatever
\* message it applies (LoadSample, PreviewSample, LoadDrumPack and
\* StopRecording included).
C3_CallbackDoesNoFileIo == cbFileOps = {}

\* C9: after a start_audio that returned Ok the stream is bound to the default
\* output device that call saw: an unchanged device keeps the one stream, a
\* changed device has the stream rebuilt on the new device.
C9_StartRebindsToDefaultDevice ==
  (engineTx /\ lastResult.cmd = "start_audio" /\ lastResult.res = "Ok"
     /\ startDev # NoDevice) =>
     (streamDev = startDev /\ lastDeviceName = startDev)

----------------------------------------------------------------------------
(* SpecVoices: the sampler of part 0 under parameter changes, a loaded    *)
(* sample, NoteOn, NoteOff and rendered frames, at the grain of one       *)
(* dispatched message or one rendered frame per step.                     *)

VoiceMsgs ==
  {Msg("SetParam", 0, [path |-> PathModuleKind(0), value |-> I32(4)]),
   Msg("SetParam", 0, [path |-> PathModuleKind(0), value |-> I32(0)]),
   Msg("SetParam", 0, [path |-> PathSampleEnd(0), value |-> F32(2)]),
   Msg("SetParam", 0, [path |-> PathSampler(0, "playback_mode"), value |-> I32(2)]),
   Msg("LoadSample", 0, SamplePath),
   Msg("NoteOn", 0, 60),
   Msg("NoteOn", 0, 72),
   Msg("NoteOff", 0, 60)}

VoiceDispatch == Dispatch(VoiceMsgs, MaxVoiceOps)

VoiceRender == RenderOne(MaxVoiceOps)

NextVoices == VoiceDispatch \/ VoiceRender

SpecVoices == Init /\ [][NextVoices]_vars

\* the step applies msg kind to part 0 while its module is the sampler
SamplerStep(kind) ==
  /\ ticks' = ticks + 1
  /\ Len(lastDrained') = 1
  /\ lastDrained'[1].kind = kind
  /\ ModuleKind(params, 0) = 4

\* the step renders one frame while part 0's module is the sampler
SamplerRenderStep ==
  /\ ticks' = ticks + 1
  /\ lastDrained' = <<>>
  /\ playing
  /\ ModuleKind(params, 0) = 4

\* the voice that the NoteOn of this step was given
TakenBy(i) == parts'[0].sampler.voices[i].trigger_serial = parts[0].sampler.trigger_counter

\* a voice holding a note of an earlier NoteOn: triggered, and sounding or
\* waiting for its first rendered frame
Held(v) == v.trigger_serial > 0 /\ (v.just_triggered \/ SamplerVoice_is_active(v))

\* C11: a NoteOn to the sampler, with no NoteOff since the held notes were
\* triggered, takes a voice that holds no earlier note whenever one of the six
\* voices holds none, whether or not a frame was rendered since the last NoteOn.
C11_NoteOnTakesUnusedVoice ==
  [][ (/\ SamplerStep("NoteOn")
       /\ \A i \in VoiceIdx : Held(parts[0].sampler.voices[i]) => parts[0].sampler.voices[i].gate
       /\ \E i \in VoiceIdx : ~Held(parts[0].sampler.voices[i]))
      => \A i \in VoiceIdx : TakenBy(i) => ~Held(parts[0].sampler.voices[i]) ]_vars

\* the sampler of part 0, its voices and its parameters
Smp == parts[0].sampler
SmpKeys == SamplerKeys(0)
OneShotMode == PlaybackMode_from_index(get_i32_h(params, SmpKeys.playback_mode, 0)) = "OneShot"
AfterFrame == lastDrained = <<>> /\ framesOut = "rendered"

\* C12: in One-Shot mode a NoteOff leaves position, envelope stage and level of
\* every sampler voice as they were, and each rendered frame moves every playing
\* voice that is short of the region end one frame on at full envelope level,
\* whether its gate is up or down.
C12_OneShotIgnoresNoteOff ==
  [][ /\ (SamplerStep("NoteOff") /\ OneShotMode) =>
           \A i \in VoiceIdx :
             /\ parts'[0].sampler.voices[i].position = Smp.voices[i].position
             /\ parts'[0].sampler.voices[i].stage = Smp.voices[i].stage
             /\ parts'[0].sampler.voices[i].level = Smp.voices[i].level
      /\ (SamplerRenderStep /\ OneShotMode /\ Smp.length_samples > 0) =>
           \A i \in VoiceIdx :
             (/\ SamplerVoice_is_active(Smp.voices[i])
              /\ ~Smp.voices[i].just_triggered
              /\ Smp.voices[i].position < EndPos(params, SmpKeys, Smp.length_samples))
             => /\ parts'[0].sampler.voices[i].position = Smp.voices[i].position + 1
                /\ parts'[0].sampler.voices[i].stage = "Sustain"
                /\ parts'[0].sampler.voices[i].level = EnvTop ]_vars

\* a released One-Shot voice that was rendered after its NoteOff and still plays
C12_Witness ==
  /\ AfterFrame /\ OneShotMode /\ ModuleKind(params, 0) = 4 /\ Smp.length_samples > 0
  /\ \E i \in VoiceIdx :
       /\ Smp.voices[i].trigger_serial > 0
       /\ ~Smp.voices[i].gate
       /\ Smp.voices[i].position >= 2
       /\ Smp.voices[i].position < EndPos(params, SmpKeys, Smp.length_samples)
       /\ Smp.voices[i].stage = "Sustain"
       /\ Smp.voices[i].level = EnvTop

\* C13: in One-Shot mode a voice that had reached the region end before a
\* rendered frame is idle after that frame.
C13_OneShotIdlesAtRegionEnd ==
  [][ (SamplerRenderStep /\ OneShotMode /\ Smp.length_samples > 0) =>
        \A i \in VoiceIdx :
          (/\ Smp.voices[i].trigger_serial > 0
           /\ ~Smp.voices[i].just_triggered
           /\ Smp.voices[i].position >= EndPos(params, SmpKeys, Smp.length_samples))
          => ~SamplerVoice_is_active(parts'[0].sampler.voices[i]) ]_vars

\* the active voices of a sampler
ActiveVoices(s) == {i \in VoiceIdx : SamplerVoice_is_active(s.voices[i])}

C16_NonSamplerPlayheadIsNone ==
  (AfterFrame /\ ModuleKind(params, 0) # 4) => playhead[0] = None


----------------------------------------------------------------------------
(* SpecLoop: one held note of part 0's sampler in Loop mode with a        *)
(* tempo-synced retrigger, on a device running at LoopSampleRate.  The     *)
(* messages of LoopScript are dispatched in order, then frames are         *)
(* rendered one per step with the transport running at a constant tempo.   *)

LoopSampleRate == 6    \* device sample rate of SpecLoop (scaled)
MaxLoopOps == 72       \* dispatch and render steps in one run of SpecLoop

LoopScript ==
  << {Msg("SetParam", 0, [path |-> PathModuleKind(0), value |-> I32(4)])},
     {Msg("LoadSample", 0, SamplePath)},
     {Msg("SetParam", 0, [path |-> PathSampler(0, "playback_mode"), value |-> I32(1)])},
     {Msg("SetParam", 0, [path |-> PathSampler(0, "retrig_mode"), value |-> I32(r)]) :
        r \in {1, 2, 3}},
     {Msg("SetTempo", 0, b) : b \in {41, 50, 120}},
     {Msg("NoteOn", 0, 60)} >>

LoopSetup == ticks < Len(LoopScript) /\ Dispatch(LoopScript[ticks + 1], MaxLoopOps)

\* the voice given to the note of LoopScript
LoopVoice(pts) == pts[0].sampler.voices[0]

\* RenderOne, recording how many frames ago the loop voice last went back to
\* loop_start (the frame that triggers it, or a frame whose retrigger fired)
LoopRender ==
  /\ ~panicked
  /\ ticks >= Len(LoopScript)
  /\ ticks < MaxLoopOps
  /\ LET Write(E) ==
           /\ SetEngine(E)
           /\ framesOut' = IF E.panicked THEN "none"
                           ELSE IF playing THEN "rendered" ELSE "silence"
           /\ sinceRestart' = IF LoopVoice(E.parts).local_beats = 0 THEN 0
                              ELSE sinceRestart + 1
     IN  Write(CallbackFrames(Engine, 1))
  /\ lastDrained' = <<>>
  /\ ticks' = ticks + 1
  /\ UNCHANGED <<connected, quitApplied, extVars, ctlVars, lastResult, queue, nextId, pingThreads,
                 bursts>>

NextLoop == LoopSetup \/ LoopRender

SpecLoop == InitAt(LoopSampleRate) /\ [][NextLoop]_vars

\* the step renders a frame on which the held loop voice restarts at loop_start
\* because its retrigger fired
LoopRestartStep ==
  /\ ticks >= Len(LoopScript)
  /\ ticks' = ticks + 1
  /\ ~LoopVoice(parts).just_triggered
  /\ LoopVoice(parts).gate
  /\ LoopVoice(parts').local_beats = 0
  /\ LoopVoice(parts').position = LoopStartPos(params, SamplerKeys(0), parts[0].sampler.length_samples) + 1

\* C14: in Loop mode with retrig_mode >= 1, a constant tempo, the transport
\* running and the note held, the number of frames rendered between two
\* successive restarts at loop_start differs from interval_beats / beats_per_sample
\* by at most one frame.
C14_RetrigWithinOneSample ==
  [][LoopRestartStep =>
       LET gap == sinceRestart + 1
           interval == IntervalBeats(get_i32_h(params, SamplerKeys(0).retrig_mode, 0),
                                     LoopSampleRate)
           bps == transport.beats_per_sample
       IN  /\ gap * bps - interval <= bps
           /\ interval - gap * bps <= bps]_vars


----------------------------------------------------------------------------
(* SpecFx: FX slot 1 of part 0 (analog voices) under changes of the slot's *)
(* type and mix, NoteOn, NoteOff and rendered frames.                      *)

FxMsgs ==
  {Msg("SetParam", 0, [path |-> PathFx(0, 1, "type"), value |-> I32(t)]) : t \in {0, 1, 2}}
    \cup {Msg("SetParam", 0, [path |-> PathFx(0, 1, "p3"), value |-> F32(m)]) : m \in {0, 10}}
    \cup {Msg("NoteOn", 0, 60), Msg("NoteOff", 0, 60)}

FxDispatch == Dispatch(FxMsgs, MaxFxOps)

FxRender == RenderOne(MaxFxOps)

NextFx == FxDispatch \/ FxRender

SpecFx == Init /\ [][NextFx]_vars

\* the step renders one frame of part 0
FxRenderStep == ticks' = ticks + 1 /\ lastDrained' = <<>> /\ playing

\* the frames of tail held by slot 1 when its type is t
Fx1Tail(fx, t) ==
  IF t = 1 THEN (IF fx.reverb = None THEN 0 ELSE fx.reverb.tank) ELSE fx.line

\* C17: while slot 1 is a reverb or a delay and its mix is 0, every rendered
\* frame still runs the slot on its input, so a tail left in the reverb tank or
\* the delay line by an earlier sound gets shorter on each frame whose input is
\* silent; it is never frozen.
C17_ZeroMixTailKeepsDecaying ==
  [][(/\ FxRenderStep
      /\ FxType(params, 0, 1) \in {1, 2}
      /\ FxMix(params, 0, 1) = 0
      /\ ~AnalogDry(parts[0].voices, parts'[0].voices)
      /\ Fx1Tail(parts[0].fx1, FxType(params, 0, 1)) > 0)
       => Fx1Tail(parts'[0].fx1, FxType(params, 0, 1))
            < Fx1Tail(parts[0].fx1, FxType(params, 0, 1))]_vars

\* C18: one rendered frame after slot 1's type is none, the slot holds no state:
\* the reverb and the bitcrusher are released and the delay line is empty,
\* whether or not the part's dry signal is silent on that frame.
C18_TypeNoneDiscardsSlotState ==
  [][(FxRenderStep /\ FxType(params, 0, 1) <= 0) => parts'[0].fx1 = Fx1_new]_vars


----------------------------------------------------------------------------
(* SpecQuit: the dispatcher under control messages that include Quit, one *)
(* message or one rendered frame per step.                                *)

QuitMsgs ==
  {Msg("Quit", 0, 0),
   Msg("SetParam", 0, [path |-> PathMixerGain(0), value |-> F32(5)]),
   Msg("NoteOn", 0, 60),
   Msg("NoteOff", 0, 60),
   Msg("SetTempo", 0, 90),
   Msg("Transport", 0, FALSE),
   Msg("StartRecording", 0, 0)}

QuitDispatch == Dispatch(QuitMsgs, MaxQuitOps)

QuitRender == RenderOne(MaxQuitOps)

NextQuit == QuitDispatch \/ QuitRender

SpecQuit == Init /\ [][NextQuit]_vars

----------------------------------------------------------------------------
(* SpecHangup: the callback when the channel loses its senders.  try_recv *)
(* answers Disconnected once no Sender is left and no message is waiting;  *)
(* the drain loop then breaks and the frame loop runs as on any buffer.    *)
(* start_audio leaks the engine and stores a Sender in ENGINE_TX, so the   *)
(* senders go away only outside the commands of commands.rs.               *)

HangupMsgs ==
  {Msg("NoteOn", 0, 60), Msg("NoteOn", 0, 61), Msg("NoteOff", 0, 60),
   Msg("Transport", 0, FALSE), Msg("Transport", 0, TRUE)}

\* a message can be received only if a Sender has sent it
HangupDispatch == connected /\ Dispatch(HangupMsgs, MaxHangupOps)

\* the last Sender of the channel is dropped
DropSenders ==
  /\ connected
  /\ queue = <<>>
  /\ connected' = FALSE
  /\ UNCHANGED <<quitApplied, sinceRestart, extVars, ctlVars, chanVars, lastResult, audioVars>>

\* one frame of a callback whose try_recv found nothing to take (Empty, or
\* Disconnected when no Sender is left): both leave the drain loop
HangupRender == RenderOne(MaxHangupOps)

NextHangup == HangupDispatch \/ DropSenders \/ HangupRender

SpecHangup == Init /\ [][NextHangup]_vars

----------------------------------------------------------------------------
(* SpecRange: the dispatcher fed with part indices inside and outside the  *)
(* six parts of the graph.  The part index of a message is a usize the     *)
(* commands pass on unchecked; apply_msg compares it with                  *)
(* graph.parts.len() in each arm that indexes the parts.                   *)

RangeParts == {0, NumParts - 1, NumParts, NumParts + 1}

RangeMsgs ==
  {Msg("NoteOn", p, 60) : p \in RangeParts}
    \cup {Msg("NoteOff", p, 60) : p \in RangeParts}
    \cup {Msg("LoadSample", p, SamplePath) : p \in RangeParts}
    \cup {Msg("ClearSample", p, 0) : p \in RangeParts}
    \cup {Msg("LoadDrumPack", p, <<SamplePath>>) : p \in RangeParts}
    \cup {Msg("SetParam", 0, [path |-> PathModuleKind(0), value |-> I32(4)])}

RangeDispatch == Dispatch(RangeMsgs, MaxRangeOps)

RangeRender == RenderOne(MaxRangeOps)

NextRange == RangeDispatch \/ RangeRender

SpecRange == Init /\ [][NextRange]_vars

PartAddressed == {"NoteOn", "NoteOff", "LoadSample", "ClearSample", "LoadDrumPack"}

\* C21: a NoteOn, NoteOff, LoadSample, ClearSample or LoadDrumPack whose part
\* index is 6 or more is ignored: applying it changes no part or voice, no
\* parameter, no transport, tempo, playing, recording or preview state, opens
\* no file, and does not panic.
C21_OutOfRangePartIgnored ==
  [][(ticks' = ticks + 1 /\ Len(lastDrained') = 1
        /\ lastDrained'[1].kind \in PartAddressed /\ lastDrained'[1].part >= 6)
       => /\ <<params, parts, transport, graphBpm, playing, recording, recordedLen,
               preview, playhead, cbFileOps>>'
               = <<params, parts, transport, graphBpm, playing, recording, recordedLen,
                   preview, playhead, cbFileOps>>
          /\ ~panicked']_vars

\* an out-of-range NoteOn has been applied while part 0 holds a loaded sampler
\* and a sounding voice
C21_Witness ==
  /\ Len(lastDrained) = 1
  /\ lastDrained[1].kind = "NoteOn" /\ lastDrained[1].part >= 6
  /\ "open_sample" \in cbFileOps
  /\ ~panicked

----------------------------------------------------------------------------
(* SpecTap: the sideband tap of the callback and its two workers.  The tap *)
(* feeds nothing back into the engine, so the other specifications leave   *)
(* it out.  commands.rs imports crossbeam_channel::unbounded as chan and   *)
(* start_audio creates both channels with it; each worker thread loops on  *)
(* rx.recv().                                                              *)

\* Sender::try_send on a channel made by unbounded(): the message is queued;
\* Full is never returned, and the receivers live as long as the workers
try_send(queued) == queued + 1

\* the frame loop's part of the tap, for n rendered frames: spec_buf.push
\* while it holds fewer than a block, m_count += 1
Tap_accumulate(t, n) ==
  [t EXCEPT !.spec_buf = Min(@ + n, SpectrumBlock), !.m_count = @ + n]

\* after the frame loop: a full spec_buf is sent and cleared
Tap_send_spectrum(t) ==
  IF t.spec_buf >= SpectrumBlock
  THEN [t EXCEPT !.spec_rx = try_send(@), !.spec_buf = 0]
  ELSE t

\* after the frame loop: a full meter window is sent and reset
Tap_send_meter(t) ==
  IF t.m_count >= MeterBlock
  THEN [t EXCEPT !.meter_rx = try_send(@), !.m_count = 0]
  ELSE t

\* the callback's `if playing` branch as far as the tap goes
Tap_callback(t, isPlaying, n) ==
  IF isPlaying THEN Tap_send_meter(Tap_send_spectrum(Tap_accumulate(t, n))) ELSE t

TapMsgs == {Msg("Transport", 0, FALSE), Msg("Transport", 0, TRUE)}

TapDispatch == Dispatch(TapMsgs, MaxTapOps)

\* one callback that finds the queue empty and renders FramesPerBuffer frames
TapCallback ==
  /\ ~panicked
  /\ ticks < MaxTapOps
  /\ LET Write(E) ==
           /\ SetEngine(E)
           /\ framesOut' = IF E.panicked THEN "none"
                           ELSE IF playing THEN "rendered" ELSE "silence"
           /\ tap' = IF E.panicked THEN tap ELSE Tap_callback(tap, playing, FramesPerBuffer)
     IN  Write(CallbackFrames(Engine, FramesPerBuffer))
  /\ lastDrained' = <<>>
  /\ ticks' = ticks + 1
  /\ UNCHANGED <<connected, quitApplied, sinceRestart, wavFiles, boot, disk, ctlVars, lastResult, queue,
                 nextId, pingThreads, bursts>>

\* spawn_spectrum_emitter: rx.recv() takes one frame, then FFT and app.emit
SpectrumWorker ==
  /\ tap.spec_rx > 0
  /\ tap' = [tap EXCEPT !.spec_rx = @ - 1]
  /\ UNCHANGED <<connected, quitApplied, sinceRestart, wavFiles, boot, disk, ctlVars, chanVars, lastResult,
                 audioVars>>

\* spawn_meter_emitter: rx.recv() takes one payload, then smoothing and app.emit
MeterWorker ==
  /\ tap.meter_rx > 0
  /\ tap' = [tap EXCEPT !.meter_rx = @ - 1]
  /\ UNCHANGED <<connected, quitApplied, sinceRestart, wavFiles, boot, disk, ctlVars, chanVars, lastResult,
                 audioVars>>

NextTap == TapDispatch \/ TapCallback \/ SpectrumWorker \/ MeterWorker

SpecTap == Init /\ [][NextTap]_vars

\* C22: the spectrum and meter channels are bounded: neither ever holds more
\* than a fixed capacity of queued frames; a send that finds the channel full
\* is dropped.
C22_SidebandChannelsBounded ==
  tap.spec_rx <= SidebandCapacity /\ tap.meter_rx <= SidebandCapacity

----------------------------------------------------------------------------
(* SpecStall: one note of part 0's sampler in Loop mode with a tempo-      *)
(* synced retrigger whose interval is longer than the loop, so the         *)
(* position reaches loop_end before the trigger.  The messages of          *)
(* StallScript are dispatched in order; then frames are rendered, and the  *)
(* key may be lifted at any time.                                          *)

StallNotes == {60, 72}

StallScript ==
  << {Msg("SetParam", 0, [path |-> PathModuleKind(0), value |-> I32(4)])},
     {Msg("LoadSample", 0, SamplePath)},
     {Msg("SetParam", 0, [path |-> PathSampler(0, "playback_mode"), value |-> I32(1)])},
     {Msg("SetParam", 0, [path |-> PathSampler(0, "loop_mode"), value |-> I32(m)]) :
        m \in {0, 1}},
     {Msg("SetParam", 0, [path |-> PathSampler(0, "retrig_mode"), value |-> I32(r)]) :
        r \in {1, 2}},
     {Msg("SetTempo", 0, b) : b \in {90, 120}},
     {Msg("NoteOn", 0, n) : n \in StallNotes} >>

StallSetup == ticks < Len(StallScript) /\ Dispatch(StallScript[ticks + 1], MaxStallOps)

StallDispatch ==
  /\ ticks >= Len(StallScript)
  /\ Dispatch({Msg("NoteOff", 0, n) : n \in StallNotes}, MaxStallOps)

StallRender == ticks >= Len(StallScript) /\ RenderOne(MaxStallOps)

NextStall == StallSetup \/ StallDispatch \/ StallRender

SpecStall == InitAt(LoopSampleRate) /\ [][NextStall]_vars

\* the step renders a frame of the loop voice in Loop mode with retrig_mode >= 1
\* while the voice is still rendered (key held, or envelope not yet idle)
StallFrame ==
  /\ ticks >= Len(StallScript)
  /\ ticks' = ticks + 1
  /\ lastDrained' = <<>>
  /\ PlaybackMode_from_index(get_i32_h(params, SamplerKeys(0).playback_mode, 0)) = "Loop"
  /\ get_i32_h(params, SamplerKeys(0).retrig_mode, 0) >= 1
  /\ LoopVoice(parts).gate \/ SamplerVoice_is_active(LoopVoice(parts))

\* the scheduled trigger fires on the frame of this step
StallFired == LoopVoice(parts').local_beats = 0

\* C23: in Loop mode with retrig_mode >= 1, a position that reaches loop_end
\* before the next scheduled trigger is held at loop_end with the stall flag
\* set; every frame rendered while stalled returns 0.0 and leaves the position
\* where it is, until the frame on which the trigger fires: that frame plays
\* from loop_start with the stall cleared.
C23_StallUntilRetrig ==
  [][StallFrame =>
       LET v == LoopVoice(parts)
           w == LoopVoice(parts')
           len == parts[0].sampler.length_samples
           lsp == LoopStartPos(params, SamplerKeys(0), len)
           lep == LoopEndPos(params, SamplerKeys(0), len)
           pitch == PitchRatio(v.note)
       IN  /\ (~v.stall_until_retrig /\ ~v.just_triggered /\ ~StallFired
                 /\ v.position >= lsp /\ v.position + pitch >= lep)
                => (w.position = lep /\ w.stall_until_retrig)
           /\ (v.stall_until_retrig /\ ~StallFired)
                => (w.position = v.position /\ w.position = lep
                      /\ w.stall_until_retrig /\ w.out = "zero")
           /\ (v.stall_until_retrig /\ StallFired)
                => (w.position = lsp + pitch /\ ~w.stall_until_retrig
                      /\ w.out = "sample")]_vars

\* the voice is stalled at loop_end, has just returned 0.0, and the key is held
C23_Witness ==
  /\ ticks > Len(StallScript)
  /\ lastDrained = <<>>
  /\ LoopVoice(parts).stall_until_retrig
  /\ LoopVoice(parts).gate
  /\ LoopVoice(parts).out = "zero"
  /\ LoopVoice(parts).position
       = LoopEndPos(params, SamplerKeys(0), parts[0].sampler.length_samples)

----------------------------------------------------------------------------
(* SpecChain: FX slot 1 of two parts side by side.  Part 1 stays on the    *)
(* analog branch of Part::render; part 0 is put on one of the six          *)
(* branches.  Both slots get the same mix, then the same types in the same *)
(* order, with frames rendered in between.  No note is played, so the dry  *)
(* signal of both parts is silent and the chain runs whenever slot 1 is on *)
(* with its mix above zero.                                                *)

ChainTypes == {1, 2, 6, 7, 8}

ChainScript ==
  << {Msg("SetParam", 0, [path |-> PathModuleKind(0), value |-> I32(k)]) : k \in 0 .. 5},
     {Msg("SetParam", 0, [path |-> PathFx(0, 1, "p3"), value |-> F32(10)])},
     {Msg("SetParam", 1, [path |-> PathFx(1, 1, "p3"), value |-> F32(10)])} >>

ChainSetup == ticks < Len(ChainScript) /\ Dispatch(ChainScript[ticks + 1], MaxChainOps)

\* slot 1 of one of the two parts is given a type
ChainDispatch ==
  /\ ticks >= Len(ChainScript)
  /\ Dispatch({Msg("SetParam", i, [path |-> PathFx(i, 1, "type"), value |-> I32(t)]) :
                 i \in {0, 1}, t \in ChainTypes}, MaxChainOps)

ChainRender == ticks >= Len(ChainScript) /\ RenderOne(MaxChainOps)

NextChain == ChainSetup \/ ChainDispatch \/ ChainRender

SpecChain == Init /\ [][NextChain]_vars

\* the step renders one frame on which the FX chain of part i runs
ChainRuns(i) ==
  /\ ticks' = ticks + 1 /\ lastDrained' = <<>> /\ playing
  /\ ~Part_early_out(params, i, FALSE)

\* C24: after every rendered frame on which a part's FX chain runs, slot 1
\* holds a reverb only if its type is reverb with mix above 5e-4, and a
\* bitcrusher only if its type is bitcrusher with mix above 5e-4.
C24_SlotHoldsOnlyItsOwnState ==
  [][\A i \in {0, 1} :
       ChainRuns(i) =>
         /\ (parts'[i].fx1.reverb # None)
              => (FxType(params, i, 1) = 1 /\ FxMix(params, i, 1) > 0)
         /\ parts'[i].fx1.crusher
              => (FxType(params, i, 1) = 8 /\ FxMix(params, i, 1) > 0)]_vars

\* C25: the FX chain is the same in all six branches of Part::render: two
\* parts on different branches whose slot 1 holds the same state and has the
\* same type, mix and p1 hold the same slot state after the frame, the delay
\* time included.
C25_ChainSameInEveryBranch ==
  [][(/\ ChainRuns(0) /\ ChainRuns(1)
      /\ parts[0].fx1 = parts[1].fx1
      /\ FxType(params, 0, 1) = FxType(params, 1, 1)
      /\ FxMix(params, 0, 1) = FxMix(params, 1, 1))
       => parts'[0].fx1 = parts'[1].fx1]_vars

----------------------------------------------------------------------------
(* SpecModules: part 0 under changes of its module kind, inside and        *)
(* outside 0..5, with NoteOn, NoteOff and rendered frames.  The parameter  *)
(* is an i32 that set_param stores unchecked.                              *)

ModuleKinds == {-1, 0, 1, 4, 6}

ModuleNotes == {60, 61}

ModuleMsgs ==
  {Msg("SetParam", 0, [path |-> PathModuleKind(0), value |-> I32(k)]) : k \in ModuleKinds}
    \cup {Msg("NoteOn", 0, n) : n \in ModuleNotes}
    \cup {Msg("NoteOff", 0, n) : n \in ModuleNotes}

ModuleDispatch == Dispatch(ModuleMsgs, MaxModuleOps)

ModuleRender == RenderOne(MaxModuleOps)

NextModules == ModuleDispatch \/ ModuleRender

SpecModules == Init /\ [][NextModules]_vars

\* the step applies a message of this kind to part 0
ModuleStep(kind) ==
  /\ ticks' = ticks + 1
  /\ Len(lastDrained') = 1
  /\ lastDrained'[1].kind = kind
  /\ lastDrained'[1].part = 0

\* the module of this render branch has taken the note (karplus, resonator
\* and drum hold no state here)
NoteTaken(q, branch, note) ==
  CASE branch = 0 -> \E v \in VoiceIdx : /\ q.voices[v].note = note
                                         /\ q.voices[v].gate /\ q.voices[v].attacking
    [] branch = 1 -> q.acid.gate /\ q.acid.current_note = SomeNote(note)
                       /\ q.acid.just_triggered
    [] branch = 4 -> \E v \in VoiceIdx : /\ q.sampler.voices[v].note = note
                                         /\ q.sampler.voices[v].gate
                                         /\ q.sampler.voices[v].just_triggered
    [] OTHER -> TRUE

\* C26: for every value of part/0/module_kind, values outside 0..5 included, a
\* NoteOn is taken by the module whose branch Part::render runs for that value,
\* and by no other module.
C26_NoteOnFollowsRenderBranch ==
  [][ModuleStep("NoteOn") =>
       LET branch == RenderBranch(ModuleKind(params, 0))
       IN  /\ NoteTaken(parts'[0], branch, lastDrained'[1].arg)
           /\ branch # 0 => parts'[0].voices = parts[0].voices
           /\ branch # 1 => parts'[0].acid = parts[0].acid
           /\ branch # 4 => parts'[0].sampler = parts[0].sampler]_vars

\* C30: a NoteOff for a note other than the one the acid voice is playing
\* leaves its gate and its current note as they are.
C30_AcidNoteOffOtherNote ==
  [][(/\ ModuleStep("NoteOff")
      /\ parts[0].acid.gate
      /\ parts[0].acid.current_note # SomeNote(lastDrained'[1].arg))
       => (/\ parts'[0].acid.gate
           /\ parts'[0].acid.current_note = parts[0].acid.current_note)]_vars

----------------------------------------------------------------------------
(* SpecRec: the recorder of the callback.  StartRecording and              *)
(* StopRecording are applied by the drain loop; the frame loop pushes the  *)
(* mono sample of every frame rendered while recording is set.             *)
(* save_recorded_samples writes the buffer to the first sample{n}.wav that *)
(* does not exist yet, so every call leaves one more file.                 *)

RecMsgs ==
  {Msg("StartRecording", 0, 0), Msg("StopRecording", 0, 0),
   Msg("Transport", 0, FALSE), Msg("Transport", 0, TRUE)}

\* one message handled by the drain loop, with the files it wrote
RecDispatch ==
  /\ ~panicked
  /\ ticks < MaxRecOps
  /\ \E msg \in RecMsgs :
       LET Apply(E) ==
             /\ SetEngine([E EXCEPT !.applied = applied])
             /\ wavFiles' = wavFiles + E.saved
       IN  /\ Apply(apply_msg(Engine, msg))
           /\ lastDrained' = <<msg>>
           /\ quitApplied' = (quitApplied \/ msg.kind = "Quit")
  /\ ticks' = ticks + 1
  /\ UNCHANGED <<connected, sinceRestart, tap, boot, disk, ctlVars, lastResult, queue, nextId,
                 pingThreads, bursts, framesOut>>

RecRender == RenderOne(MaxRecOps)

NextRec == RecDispatch \/ RecRender

SpecRec == Init /\ [][NextRec]_vars

\* C27: a StopRecording that finds no recording in progress writes no file, so
\* each StartRecording ... StopRecording pair saves at most once; and the
\* buffer grows only on a frame rendered while recording is set.
C27_OneSavePerRecording ==
  [][/\ (ticks' = ticks + 1 /\ Len(lastDrained') = 1
           /\ lastDrained'[1].kind = "StopRecording" /\ ~recording)
          => wavFiles' = wavFiles
     /\ wavFiles' <= wavFiles + 1
     /\ recordedLen' > recordedLen => (recording /\ lastDrained' = <<>>)]_vars

----------------------------------------------------------------------------
(* SpecStart: start_audio called from several threads.  The function holds *)
(* no lock: it reads ENGINE_TX, builds an engine, starts its stream, leaks *)
(* the engine and only then stores the sender.  Each action is one of      *)
(* these steps of one caller; an engine is named after its caller.         *)

\* commands.rs 80: `if ENGINE_TX.get().is_some() { return Ok(()); }`, entered
\* by a thread that is not inside start_audio
StartCheck(t) ==
  /\ boot.pc[t] \in {"idle", "returned", "failed"}
  /\ boot' = [boot EXCEPT !.pc[t] = IF boot.ENGINE_TX # None THEN "returned" ELSE "create"]

\* commands.rs 81-91: AudioEngine::new()? with the device found or not, the
\* two sideband channels and their emitter threads, engine.sender()
StartNew(t) ==
  /\ boot.pc[t] = "create"
  /\ \E device \in BOOLEAN :
       boot' = [boot EXCEPT !.pc[t] = IF device THEN "built" ELSE "failed"]

\* commands.rs 92: engine.start()?; on Ok the stream of this engine plays,
\* on Err the boxed engine is dropped on return
StartStream(t) ==
  /\ boot.pc[t] = "built"
  /\ \E ok \in BOOLEAN :
       boot' = IF ok
               THEN [boot EXCEPT !.pc[t] = "playing", !.streams = @ \cup {t}]
               ELSE [boot EXCEPT !.pc[t] = "failed"]

\* commands.rs 93-95: Box::leak(engine); `let _ = ENGINE_TX.set(tx);` where
\* OnceCell::set keeps the value already stored and the Err is thrown away
StartSet(t) ==
  /\ boot.pc[t] = "playing"
  /\ boot' = [boot EXCEPT !.pc[t] = "returned",
                          !.ENGINE_TX = IF @ = None THEN SomeNote(t) ELSE @]

NextStart ==
  /\ \E t \in Callers : StartCheck(t) \/ StartNew(t) \/ StartStream(t) \/ StartSet(t)
  /\ UNCHANGED <<connected, quitApplied, sinceRestart, tap, wavFiles, disk, ctlVars, chanVars,
                 lastResult, audioVars>>

SpecStart == Init /\ [][NextStart]_vars

\* C28: whatever the interleaving of start_audio calls, at most one engine
\* has a running stream, and once ENGINE_TX is set it holds the sender of
\* that engine.
C28_OneEngineStarted ==
  /\ Cardinality(boot.streams) <= 1
  /\ boot.ENGINE_TX # None => boot.streams = {boot.ENGINE_TX.v}

----------------------------------------------------------------------------
(* SpecDisk: project.json of one project.  fs_write_project hands its data *)
(* to the debounced writer thread of the path; create_sound and            *)
(* delete_sound read the file, change the project and write it at once.    *)

MaxProjectSounds == 16

Tempos == {90, ProjectBpm}

\* fs_api.rs 289-297 and read_json 171-174: the project in project.json
ReadProject(d) == IF d.file = None THEN Project_default ELSE d.file.v

SoundIds(pj) == {pj.sounds[k].id : k \in DOMAIN pj.sounds}

\* fs_api.rs 440-448: the lowest part index no sound uses
RECURSIVE FreePartIndex(_, _)
FreePartIndex(used, pi) == IF pi \in used THEN FreePartIndex(used, pi + 1) ELSE pi

\* fs_api.rs 149-169: the file is replaced by data
atomic_write(d, data) == [d EXCEPT !.file = SomeNote(data)]

\* fs_api.rs 99-113: the writer of the path is spawned on first use and the
\* data is sent on its channel
schedule_write(d, data) ==
  [d EXCEPT !.WRITE_WORKERS = TRUE,
            !.chan = Append(@, [data |-> data, n |-> d.issued + 1])]

\* fs_api.rs 289-297: the front end loads the project
fs_read_project ==
  /\ disk.issued < MaxDiskOps
  /\ disk' = [disk EXCEPT !.ui = ReadProject(disk), !.issued = @ + 1]

\* fs_api.rs 299-304: the front end saves its project after an edit (here of
\* the tempo)
fs_write_project ==
  /\ disk.issued < MaxDiskOps
  /\ \E bpm \in Tempos :
       LET data == [disk.ui EXCEPT !.global_bpm = bpm]
       IN  disk' = [schedule_write(disk, data) EXCEPT !.ui = data, !.issued = @ + 1,
                                                      !.last = SomeNote(data)]

\* fs_api.rs 368-462
create_sound ==
  /\ disk.issued < MaxDiskOps
  /\ LET pj == ReadProject(disk)
         pi == FreePartIndex({pj.sounds[k].part_index : k \in DOMAIN pj.sounds}, 0)
         sound == [id |-> disk.ID_COUNTER, part_index |-> pi]
         out == [pj EXCEPT !.sounds = Append(@, sound)]
     IN  IF Len(pj.sounds) >= MaxProjectSounds \/ pi >= MaxProjectSounds
         THEN disk' = [disk EXCEPT !.issued = @ + 1]
         ELSE disk' = [atomic_write(disk, out) EXCEPT
                         !.ID_COUNTER = @ + 1, !.issued = @ + 1, !.last = SomeNote(out),
                         !.direct = [n |-> disk.issued + 1, added |-> {sound.id},
                                     removed |-> {}]]

\* fs_api.rs 328-341: the part of delete_sound that touches project.json
delete_sound ==
  /\ disk.issued < MaxDiskOps
  /\ \E sound_id \in 1 .. disk.ID_COUNTER - 1 :
       LET pj == ReadProject(disk)
           out == [pj EXCEPT !.sounds = SelectSeq(@, LAMBDA s : s.id # sound_id)]
       IN  IF Len(out.sounds) = Len(pj.sounds)
           THEN disk' = [disk EXCEPT !.issued = @ + 1]
           ELSE disk' = [atomic_write(disk, out) EXCEPT
                           !.issued = @ + 1, !.last = SomeNote(out),
                           !.direct = [n |-> disk.issued + 1, added |-> {},
                                       removed |-> {sound_id}]]

\* fs_api.rs 119-122: rx.recv() of the writer thread takes the next data
WriterRecv ==
  /\ disk.WRITE_WORKERS /\ disk.pc = "recv" /\ disk.chan # <<>>
  /\ disk' = [disk EXCEPT !.pending = SomeNote(Head(disk.chan)), !.chan = Tail(@),
                          !.pc = "debounce"]

\* fs_api.rs 124-130: inside the debounce window newer data replaces pending
WriterMore ==
  /\ disk.pc = "debounce" /\ disk.chan # <<>>
  /\ disk' = [disk EXCEPT !.pending = SomeNote(Head(disk.chan)), !.chan = Tail(@)]

\* fs_api.rs 131-141: the 150 ms pass and pending is written
WriterWrite ==
  /\ disk.pc = "debounce"
  /\ disk' = [atomic_write(disk, disk.pending.v.data) EXCEPT
                !.pending = None, !.pc = "recv"]

NextDisk ==
  /\ \/ fs_read_project \/ fs_write_project \/ create_sound \/ delete_sound
     \/ WriterRecv \/ WriterMore \/ WriterWrite
  /\ UNCHANGED <<connected, quitApplied, sinceRestart, tap, wavFiles, boot, ctlVars, chanVars,
                 lastResult, audioVars>>

SpecDisk == Init /\ [][NextDisk]_vars

\* no data waits in the channel or in the writer
DiskQuiet(d) == d.chan = <<>> /\ d.pending = None

\* C29: the writer never replaces project.json with data that was scheduled
\* before the last create_sound or delete_sound and lacks its change; and
\* once no write is pending, project.json holds what the command issued last
\* asked for.
C29_NoLostProjectUpdate ==
  [][/\ (disk.pc = "debounce" /\ disk'.pc = "recv" /\ disk.pending.v.n < disk.direct.n)
          => /\ disk.direct.added \subseteq SoundIds(ReadProject(disk'))
             /\ disk.direct.removed \cap SoundIds(ReadProject(disk')) = {}
     /\ (DiskQuiet(disk') /\ disk'.last # None) => disk'.file = disk'.last]_vars

====
